---- MODULE Spec2Model ----
(***************************************************************************)
(* NeonFlow: a model of the player's state machine (src/App.tsx), of the    *)
(* embedded-video adapter (YouTubeAudioPlayer) and of the visualizer's      *)
(* control surface (src/components/Visualizer3D.tsx).                       *)
(*                                                                          *)
(* One action models one event handler together with the render and the    *)
(* effects React runs after it; a promise continuation or a timer callback  *)
(* is an action of its own.                                                 *)
(***************************************************************************)
EXTENDS Integers, Sequences, FiniteSets, TLC

\* ------------------------------------------------------------------ bounds
\* Files uploaded in one run.
MaxUploads == 2
\* Lyrics requests, and vibe requests, in flight at once.
MaxInFlight == 1
\* Characters of a lyrics text handed to PlayerControls.
MaxChars == 5
\* Calls of the storage service in one run.
MaxOps == 2
\* The highest id a preset of the list gets.
MaxPresets == 4
\* Playlists created in one run.
MaxPlaylists == 1
\* Chat messages the user sends in one run.
MaxMessages == 2
\* The accumulated time the wave is followed up to, in seconds.
MaxTime == 1

\* --------------------------------------------------------------- constants
\* playbackContext 'library' (a playlist's id otherwise).
Library == 0
\* The result of x % 0 in JavaScript; it absorbs + and %. It is encoded as an
\* integer that no index computation of the model produces.
NaN == -999
\* audio.src of a fresh Audio(): the empty string.
NoSrc == 0
\* DEMO_TRACKS.length
NumDemo == 3

VARIABLES
    tracks,             \* useState<Track[]>(DEMO_TRACKS): the library
    playlists,          \* useState<Playlist[]>([])
    playbackContext,    \* Library or a playlist id
    currentTrackIndex,  \* a natural number or NaN
    isPlaying,
    endedLen,           \* playingTracks.length captured by the registered 'ended' listener
    uploads,            \* setTimeout callbacks of handleFileUpload not yet run
    uploadCount,        \* files uploaded so far (makes ids fresh)
    playlistCount,      \* playlists created so far (makes ids fresh)
    audio,              \* audioRef.current: [src, paused]
    lyrics,             \* the displayed lyrics text
    isLyricsLoading,
    lyricsCache,        \* track id -> text (<<>>: no entry)
    lyricsInFlight,     \* track id -> number of fetchLyrics calls awaited
    vibeInFlight,       \* track id -> number of analyzeTrackVibe calls awaited
    visualColor,
    rightPanelMode,     \* 'chat' or 'lyrics': the panel that is mounted
    isEditing,          \* LyricsPanel's isEditing (FALSE while it is not mounted)
    editedLyrics,       \* LyricsPanel's editedLyrics (NoText while it is not mounted)
    last,               \* what the last step did: [op, arg, cmds, fetch,
                        \* rejected, was]: the operation, the track of a resolved request,
                        \* the transport commands issued, the track whose lyrics were
                        \* requested (0: none), whether a play() was rejected, and
                        \* isPlaying before the step
    visualizerMode,     \* 'orb', 'bars' or 'wave'
    visualSettings,     \* [intensity, speed], in fixed point (see Fixed)
    presets,            \* useState<VisualizerPreset[]>
    newPresetName,      \* the name typed into the preset form
    dragState,          \* useVisualizerDrag's ref of the mounted visualizer
    sliderActive,       \* the `active` state of the two Slider3D
    pointer,            \* clientX, clientY of the last pointer event on the visualizer
    capture,            \* the target that holds the pointer capture: "none",
                        \* "visualizer", "intensity" or "speed"
    hovered,            \* the `hovered` state of the two Slider3D
    average,            \* the average level the last frame sampled, 0..255
    timeRef,            \* WaveVisualizer's timeRef.current, in fixed point squared
    ytProps,            \* YouTubeAudioPlayer's props: [videoId, isPlaying, volume]
    ytMounted,          \* the props of the render that mounted it
    ytPlayer,           \* playerRef.current: "none", "created" or "ready"
    ytState,            \* what getPlayerState() reports
    ytVideo,            \* the video the player has loaded (0: none)
    ytVolume,           \* the player's volume, 0..100
    ytLast,             \* what the adapter's last step did: [op, cmds, ended]
    playerControls,     \* PlayerControls: its props lyrics, currentTime, duration
                        \* and the currentLyric its render computed
    aiLast,             \* the AI call settled last: [kind, track, outcome, result]
    searchLast,         \* the search settled last: [query, hasKey, lookups, result],
                        \* lookups being the outcomes of the fetches it issued
    db,                 \* db.ts: the opened database, "undefined" or "open"
    dbStore,            \* the ids of the tracks in the object store
    dbOps,              \* the calls of saveTrack, getAllTracks and deleteTrackFromDB:
                        \* [op, id, stage, promise, failed, value]
    chatMessages,       \* useState<ChatMessage[]>: [sender, text] in display order
    isAiTyping,
    chatInput,          \* AIChat's input field
    chatInFlight,       \* the calls of handleUserMessage that await their response:
                        \* [n, text, track]
    chatSent            \* messages sent so far

\* The player's state but for visualColor, which the visualizer shares.
playerVars == <<tracks, playlists, playbackContext, currentTrackIndex, isPlaying,
                endedLen, uploads, uploadCount, playlistCount, audio, lyrics,
                isLyricsLoading, lyricsCache, lyricsInFlight, vibeInFlight, last,
                rightPanelMode, isEditing, editedLyrics>>

visVars == <<visualizerMode, visualSettings, presets, newPresetName, dragState,
             sliderActive, pointer, capture, hovered, average, timeRef>>

ytVars == <<ytProps, ytMounted, ytPlayer, ytState, ytVideo, ytVolume, ytLast>>

\* The state of the other components and of the services.
dbVars == <<db, dbStore, dbOps>>

chatVars == <<chatMessages, isAiTyping, chatInput, chatInFlight, chatSent>>

svcVars == <<playerControls, aiLast, searchLast, dbVars, chatVars>>

vars == <<playerVars, visualColor, visVars, ytVars, svcVars>>

\* ------------------------------------------------------------------ tracks
\* A Track: its id, its url (NoSrc for a placeholder) and whether status is 'uploading'.
DemoTrack(k) == [id |-> k, url |-> k, up |-> FALSE]

DEMO_TRACKS == [k \in 1..NumDemo |-> DemoTrack(k)]

\* The ids a ready track can have: the demo tracks' and the uploaded files'.
TrackIds == 1..(NumDemo + MaxUploads)

\* tempId = `uploading-${Date.now()}` of the k-th upload: no ready track has it.
TempId(k) == 0 - k

\* The k-th upload's final track: a new id and a new object URL.
FinalTrack(k) == [id |-> NumDemo + k, url |-> NumDemo + k, up |-> FALSE]

PlaceholderTrack(k) == [id |-> TempId(k), url |-> NoSrc, up |-> TRUE]

\* ------------------------------------------------------------------- texts
\* A lyrics text: <<>> is the empty string, every other text is truthy.
NoText == <<>>

LyricsOf(id) == <<"lyrics", id>>

EditedText == <<"edited", 0>>

\* ----------------------------------------------------------- JS arithmetic
JsAdd(a, b) == IF a = NaN \/ b = NaN THEN NaN ELSE a + b

JsMod(a, n) == IF a = NaN \/ n = NaN \/ n = 0 THEN NaN ELSE a % n

\* seq[i] of a JavaScript array (0-based); FALSE stands for undefined.
Defined(seq, i) == i # NaN /\ i >= 0 /\ i < Len(seq)

\* ------------------------------------------------------- derived App state
HasPlaylist(ps, id) == \E j \in 1..Len(ps) : ps[j].id = id

FindPlaylist(ps, id) == ps[CHOOSE j \in 1..Len(ps) : ps[j].id = id]

\* playingTracks: an empty array is truthy, so `|| tracks` applies only when the
\* playlist is not found.
PlayingTracksOf(ctx, ts, ps) ==
    IF ctx = Library THEN ts
    ELSE IF HasPlaylist(ps, ctx) THEN FindPlaylist(ps, ctx).tracks
    ELSE ts

\* currentTrack = playingTracks[currentTrackIndex] || tracks[0]
CurrentTrackOf(ctx, idx, ts, ps) ==
    LET pt == PlayingTracksOf(ctx, ts, ps)
    IN  IF Defined(pt, idx) THEN pt[idx + 1] ELSE ts[1]

playingTracks == PlayingTracksOf(playbackContext, tracks, playlists)

currentTrack == CurrentTrackOf(playbackContext, currentTrackIndex, tracks, playlists)

\* --------------------------------------------------------------- transport
\* The audio element with the commands issued on it in this step, and whether
\* a play() of this step was rejected: a == [src, paused, cmds, rejected].
Cmd(op, arg) == [op |-> op, arg |-> arg]

\* audio.src = url: the element loads the source, which pauses it.
Load(a, url) ==
    [a EXCEPT !.src = url, !.paused = TRUE,
              !.cmds = Append(@, Cmd("load", url))]

\* .catch(e => console.error(...)): the rejection is logged and nothing else.
CatchPlayError(a) == [a EXCEPT !.rejected = TRUE]

\* audio.play().catch(...): when the host allows it (ok) playback starts;
\* otherwise the promise is returned rejected, the element stays paused and the
\* catch callback runs before any other handler.
Play(a, ok) ==
    LET a1 == [a EXCEPT !.cmds = Append(@, Cmd("play", a.src))]
    IN  IF ok THEN [a1 EXCEPT !.paused = FALSE] ELSE CatchPlayError(a1)

Pause(a) ==
    [a EXCEPT !.paused = TRUE, !.cmds = Append(@, Cmd("pause", a.src))]

\* The element as a handler finds it.
Audio0 == [src |-> audio.src, paused |-> audio.paused,
           cmds |-> <<>>, rejected |-> FALSE]

\* ------------------------------------------------------- track-change effect
\* Whether the effect goes past its guards for track t.
EffectLoads(t, a) == ~t.up /\ a.src # t.url

\* The audio part of the effect without its comparison of sources.
AlwaysLoadAudio(t, playing, a, ok) ==
    IF t.up THEN a
    ELSE IF playing THEN Play(Load(a, t.url), ok) ELSE Load(a, t.url)

\* The audio part of the effect: load a source that differs, resume if playing.
EffectAudio(t, playing, a, ok) ==
    IF ~EffectLoads(t, a) THEN a
    ELSE IF playing THEN Play(Load(a, t.url), ok) ELSE Load(a, t.url)

\* The number of requests awaited, over all tracks.
RECURSIVE SumTo(_, _)
SumTo(f, n) == IF n = 0 THEN 0 ELSE f[n] + SumTo(f, n - 1)

Total(f) == SumTo(f, NumDemo + MaxUploads)

\* One more request for track id awaits its answer. The service sets no
\* timeout: a request issued while MaxInFlight are awaited is one that is never
\* answered, and is not counted.
Await(f, id) == IF Total(f) < MaxInFlight THEN [f EXCEPT ![id] = @ + 1] ELSE f

\* fetchLyricsForCurrentTrack without its look at the cache.
NoCacheFetchLyrics(t, cache, ly) ==
    [ly EXCEPT !.text = NoText, !.loading = TRUE,
               !.inFlight = Await(@, t.id), !.fetch = t.id]

\* fetchLyricsForCurrentTrack up to its await: ly == [text, loading, inFlight, fetch].
FetchLyricsStart(t, cache, ly) ==
    IF cache[t.id] # NoText
    THEN [ly EXCEPT !.text = cache[t.id]]
    ELSE [ly EXCEPT !.text = NoText, !.loading = TRUE,
                    !.inFlight = Await(@, t.id), !.fetch = t.id]

Lyrics0 == [text |-> lyrics, loading |-> isLyricsLoading,
            inFlight |-> lyricsInFlight, fetch |-> 0]

\* LyricsPanel's effect on [lyrics, isEditing], after a step of App that may
\* have changed the lyrics: the draft follows them unless the editor is open.
LyricsPanelEffect ==
    /\ editedLyrics' = IF rightPanelMode = "lyrics" /\ ~isEditing THEN lyrics'
                        ELSE editedLyrics
    /\ UNCHANGED <<rightPanelMode, isEditing>>

\* The effect of useEffect(..., [currentTrack, isPlaying]) after a handler that
\* left the element as a, with t and playing the values of the new render.
TrackChangeEffect(t, playing, a, ok, op, arg) ==
    LET a2 == EffectAudio(t, playing, a, ok)
        loads == EffectLoads(t, a)
        ly == IF loads THEN FetchLyricsStart(t, lyricsCache, Lyrics0) ELSE Lyrics0
    IN  /\ audio' = [src |-> a2.src, paused |-> a2.paused]
        /\ lyrics' = ly.text
        /\ isLyricsLoading' = ly.loading
        /\ lyricsInFlight' = ly.inFlight
        /\ vibeInFlight' = IF loads THEN Await(vibeInFlight, t.id) ELSE vibeInFlight
        /\ last' = [op |-> op, arg |-> arg, cmds |-> a2.cmds, fetch |-> ly.fetch,
                    rejected |-> a2.rejected, was |-> isPlaying]
        /\ LyricsPanelEffect
        /\ UNCHANGED <<lyricsCache, visualColor, visVars, ytVars, svcVars>>

\* The effect for the state a handler leaves behind.
EffectAfter(a, ok, op, arg) ==
    TrackChangeEffect(
        CurrentTrackOf(playbackContext', currentTrackIndex', tracks', playlists'),
        isPlaying', a, ok, op, arg)

\* The 'ended' listener is registered again when playbackContext changes, with
\* the handleNext of that render.
EndedListener ==
    endedLen' = IF playbackContext' # playbackContext
                THEN Len(PlayingTracksOf(playbackContext', tracks', playlists'))
                ELSE endedLen

\* ------------------------------------------------------------------- App
\* The state after the first render and its effects: the track-change effect
\* has loaded DEMO_TRACKS[0] and started its vibe and lyrics requests.
InitPlayer ==
    /\ tracks = DEMO_TRACKS
    /\ playlists = <<>>
    /\ playlistCount = 0
    /\ playbackContext = Library
    /\ currentTrackIndex = 0
    /\ isPlaying = FALSE
    /\ endedLen = NumDemo
    /\ uploads = {}
    /\ uploadCount = 0
    /\ audio = [src |-> DEMO_TRACKS[1].url, paused |-> TRUE]
    /\ lyrics = NoText
    /\ isLyricsLoading = TRUE
    /\ lyricsCache = [id \in TrackIds |-> NoText]
    /\ lyricsInFlight = [id \in TrackIds |-> IF id = 1 THEN 1 ELSE 0]
    /\ vibeInFlight = [id \in TrackIds |-> IF id = 1 THEN 1 ELSE 0]
    /\ visualColor = "#4f46e5"
    /\ rightPanelMode = "chat"
    /\ isEditing = FALSE
    /\ editedLyrics = NoText
    /\ last = [op |-> "mount", arg |-> 0,
               cmds |-> <<Cmd("load", DEMO_TRACKS[1].url)>>, fetch |-> 1,
               rejected |-> FALSE, was |-> FALSE]

navVars == <<tracks, playlists, playlistCount, playbackContext,
             currentTrackIndex, endedLen, uploads, uploadCount>>

\* handlePlayPause: pause or play the element, then flip isPlaying.
handlePlayPause(ok) ==
    /\ isPlaying' = ~isPlaying
    /\ UNCHANGED navVars
    /\ EffectAfter(IF isPlaying THEN Pause(Audio0) ELSE Play(Audio0, ok),
                   ok, "playPause", 0)

\* An advance that wraps one row too late.
NextIndexLateWrap(prev, len) == JsMod(JsAdd(prev, 1), len + 1)

\* (prev + 1) % playingTracks.length
NextIndex(prev, len) == JsMod(JsAdd(prev, 1), len)

\* (prev - 1 + playingTracks.length) % playingTracks.length
PrevIndex(prev, len) == JsMod(JsAdd(JsAdd(prev, 0 - 1), len), len)

\* handleNext, from the Next button: the handler of the latest render.
handleNext(ok) ==
    /\ currentTrackIndex' = NextIndex(currentTrackIndex, Len(playingTracks))
    /\ UNCHANGED <<tracks, playlists, playlistCount, playbackContext, endedLen,
                   uploads, uploadCount, isPlaying>>
    /\ EffectAfter(Audio0, ok, "next", 0)

handlePrev(ok) ==
    /\ currentTrackIndex' = PrevIndex(currentTrackIndex, Len(playingTracks))
    /\ UNCHANGED <<tracks, playlists, playlistCount, playbackContext, endedLen,
                   uploads, uploadCount, isPlaying>>
    /\ EffectAfter(Audio0, ok, "prev", 0)

\* The element reaches the end of its source: it pauses and fires 'ended',
\* whose listener calls the handleNext of the render that registered it.
handleEnded(ok) ==
    /\ ~audio.paused
    /\ currentTrackIndex' = NextIndex(currentTrackIndex, endedLen)
    /\ UNCHANGED <<tracks, playlists, playlistCount, playbackContext, endedLen,
                   uploads, uploadCount, isPlaying>>
    /\ EffectAfter([Audio0 EXCEPT !.paused = TRUE], ok, "ended", 0)

\* handleTrackSelect(track, index, context): a click on row `index` of the
\* library (or of the search results) or of playlist `context`.
handleTrackSelect(index, context, ok) ==
    /\ context = Library \/ HasPlaylist(playlists, context)
    /\ Defined(PlayingTracksOf(context, tracks, playlists), index)
    /\ playbackContext' = context
    /\ currentTrackIndex' = index
    /\ isPlaying' = TRUE
    /\ UNCHANGED <<tracks, playlists, playlistCount, uploads, uploadCount>>
    /\ EndedListener
    /\ EffectAfter(Audio0, ok, "select", 0)

\* createPlaylist: a new, empty playlist with id Date.now().
createPlaylist ==
    /\ playlistCount < MaxPlaylists
    /\ playlistCount' = playlistCount + 1
    /\ playlists' = Append(playlists, [id |-> playlistCount + 1, tracks |-> <<>>])
    /\ UNCHANGED <<tracks, playbackContext, currentTrackIndex, endedLen,
                   uploads, uploadCount, isPlaying>>
    /\ EffectAfter(Audio0, TRUE, "createPlaylist", 0)

\* A deletion that leaves the playback context as it is.
deletePlaylistKeepsContext(id) ==
    /\ HasPlaylist(playlists, id)
    /\ playlists' = SelectSeq(playlists, LAMBDA p : p.id # id)
    /\ UNCHANGED <<playbackContext, currentTrackIndex, isPlaying>>
    /\ UNCHANGED <<tracks, playlistCount, uploads, uploadCount>>
    /\ EndedListener
    /\ EffectAfter(Audio0, TRUE, "deletePlaylist", 0)

\* deletePlaylist(id), confirmed in the dialog.
deletePlaylist(id) ==
    /\ HasPlaylist(playlists, id)
    /\ playlists' = SelectSeq(playlists, LAMBDA p : p.id # id)
    /\ IF playbackContext = id
       THEN /\ playbackContext' = Library
            /\ currentTrackIndex' = 0
            /\ isPlaying' = FALSE
       ELSE UNCHANGED <<playbackContext, currentTrackIndex, isPlaying>>
    /\ UNCHANGED <<tracks, playlistCount, uploads, uploadCount>>
    /\ EndedListener
    /\ EffectAfter(Audio0, TRUE, "deletePlaylist", 0)

InTracks(ts, id) == \E j \in 1..Len(ts) : ts[j].id = id

\* An addToPlaylist without the look-up of trackToAdd.id in the playlist.
addToPlaylistAlways(playlistId, t) ==
    /\ HasPlaylist(playlists, playlistId)
    /\ \E j \in 1..Len(tracks) : tracks[j] = t /\ ~t.up
    /\ playlists' = [j \in 1..Len(playlists) |->
          IF playlists[j].id = playlistId
          THEN [playlists[j] EXCEPT !.tracks = Append(@, t)]
          ELSE playlists[j]]
    /\ UNCHANGED <<tracks, playlistCount, playbackContext, currentTrackIndex,
                   endedLen, uploads, uploadCount, isPlaying>>
    /\ EffectAfter(Audio0, TRUE, "addToPlaylist", 0)

\* addToPlaylist(playlistId) with trackToAdd = t, a ready track of the library.
addToPlaylist(playlistId, t) ==
    /\ HasPlaylist(playlists, playlistId)
    /\ \E j \in 1..Len(tracks) : tracks[j] = t /\ ~t.up
    /\ playlists' = [j \in 1..Len(playlists) |->
          IF playlists[j].id = playlistId /\ ~InTracks(playlists[j].tracks, t.id)
          THEN [playlists[j] EXCEPT !.tracks = Append(@, t)]
          ELSE playlists[j]]
    /\ UNCHANGED <<tracks, playlistCount, playbackContext, currentTrackIndex,
                   endedLen, uploads, uploadCount, isPlaying>>
    /\ EffectAfter(Audio0, TRUE, "addToPlaylist", 0)

\* removeFromPlaylist(playlistId, trackId): the X of a row of the playlist.
removeFromPlaylist(playlistId, trackId, ok) ==
    /\ HasPlaylist(playlists, playlistId)
    /\ InTracks(FindPlaylist(playlists, playlistId).tracks, trackId)
    /\ playlists' = [j \in 1..Len(playlists) |->
          IF playlists[j].id = playlistId
          THEN [playlists[j] EXCEPT
                  !.tracks = SelectSeq(@, LAMBDA x : x.id # trackId)]
          ELSE playlists[j]]
    /\ UNCHANGED <<tracks, playlistCount, playbackContext, currentTrackIndex,
                   endedLen, uploads, uploadCount, isPlaying>>
    /\ EffectAfter(Audio0, ok, "removeFromPlaylist", 0)

\* handleFileUpload: the placeholder is appended and the timer is set; its
\* callback keeps the playbackContext of this render.
handleFileUpload ==
    /\ uploadCount < MaxUploads
    /\ uploadCount' = uploadCount + 1
    /\ tracks' = Append(tracks, PlaceholderTrack(uploadCount + 1))
    /\ uploads' = uploads \cup {[k |-> uploadCount + 1, context |-> playbackContext]}
    /\ UNCHANGED <<playlists, playlistCount, playbackContext, currentTrackIndex,
                   endedLen, isPlaying>>
    /\ EffectAfter(Audio0, TRUE, "upload", 0)

\* findIndex(t => t.id === tempId), 0-based; -1 when absent.
FindIndex(ts, id) ==
    IF InTracks(ts, id) THEN (CHOOSE j \in 1..Len(ts) : ts[j].id = id) - 1
    ELSE 0 - 1

\* A timer callback that drops the placeholder and appends the final track.
uploadReadyAppends(u, ok) ==
    /\ u \in uploads
    /\ uploads' = uploads \ {u}
    /\ LET at == FindIndex(tracks, TempId(u.k))
       IN  IF at # 0 - 1
           THEN /\ tracks' = Append(SelectSeq(tracks, LAMBDA t : t.id # TempId(u.k)),
                                    FinalTrack(u.k))
                /\ IF u.context = Library
                   THEN currentTrackIndex' = Len(tracks) - 1 /\ isPlaying' = TRUE
                   ELSE UNCHANGED <<currentTrackIndex, isPlaying>>
           ELSE UNCHANGED <<tracks, currentTrackIndex, isPlaying>>
    /\ UNCHANGED <<playlists, playlistCount, playbackContext, endedLen, uploadCount>>
    /\ EffectAfter(Audio0, ok, "uploadReady", 0)

\* The timer callback of upload u: the placeholder is replaced by the final
\* track, and under the library context (as the callback saw it) it is selected.
uploadReady(u, ok) ==
    /\ u \in uploads
    /\ uploads' = uploads \ {u}
    /\ LET at == FindIndex(tracks, TempId(u.k))
       IN  IF at # 0 - 1
           THEN /\ tracks' = [tracks EXCEPT ![at + 1] = FinalTrack(u.k)]
                /\ IF u.context = Library
                   THEN currentTrackIndex' = at /\ isPlaying' = TRUE
                   ELSE UNCHANGED <<currentTrackIndex, isPlaying>>
           ELSE UNCHANGED <<tracks, currentTrackIndex, isPlaying>>
    /\ UNCHANGED <<playlists, playlistCount, playbackContext, endedLen, uploadCount>>
    /\ EffectAfter(Audio0, ok, "uploadReady", 0)

\* The continuation of fetchLyricsForCurrentTrack(track) after its await.
lyricsResolved(id, text) ==
    /\ lyricsInFlight[id] > 0
    /\ lyricsInFlight' = [lyricsInFlight EXCEPT ![id] = @ - 1]
    /\ IF text # NoText
       THEN /\ lyrics' = text
            /\ lyricsCache' = [lyricsCache EXCEPT ![id] = text]
       ELSE /\ lyrics' = NoText
            /\ UNCHANGED lyricsCache
    /\ isLyricsLoading' = FALSE
    /\ last' = [op |-> "lyricsResolved", arg |-> id, cmds |-> <<>>, fetch |-> 0,
                rejected |-> FALSE, was |-> isPlaying]
    /\ LyricsPanelEffect
    /\ UNCHANGED <<navVars, isPlaying, audio, vibeInFlight, visualColor,
                   visVars, ytVars, svcVars>>

\* analyzeTrackVibe(track).then(vibe => setVisualColor(vibe.color))
vibeResolved(id, color) ==
    /\ vibeInFlight[id] > 0
    /\ vibeInFlight' = [vibeInFlight EXCEPT ![id] = @ - 1]
    /\ visualColor' = color
    /\ last' = [op |-> "vibeResolved", arg |-> id, cmds |-> <<>>, fetch |-> 0,
                rejected |-> FALSE, was |-> isPlaying]
    /\ UNCHANGED <<navVars, isPlaying, audio, lyrics, isLyricsLoading, lyricsCache,
                   lyricsInFlight, rightPanelMode, isEditing, editedLyrics,
                   visVars, ytVars, svcVars>>

\* LyricsPanel's Save: onUpdateLyrics(editedLyrics), which is setLyrics. The
\* editor is shown only while the lyrics are not loading.
updateLyrics(text) ==
    /\ ~isLyricsLoading
    /\ lyrics' = text
    /\ last' = [op |-> "updateLyrics", arg |-> 0, cmds |-> <<>>, fetch |-> 0,
                rejected |-> FALSE, was |-> isPlaying]
    /\ LyricsPanelEffect
    /\ UNCHANGED <<navVars, isPlaying, audio, isLyricsLoading,
                   lyricsCache, lyricsInFlight, vibeInFlight, visualColor,
                   visVars, ytVars, svcVars>>

\* ------------------------------------------------------------- LyricsPanel
\* What a step of the lyrics editor leaves alone.
OutsideEditor ==
    UNCHANGED <<navVars, isPlaying, audio, isLyricsLoading, lyricsCache, lyricsInFlight,
                vibeInFlight, visualColor, visVars, ytVars, playerControls, aiLast,
                searchLast, dbVars, chatMessages, isAiTyping, chatInFlight, chatSent>>

EditorLast(op) == [op |-> op, arg |-> 0, cmds |-> <<>>, fetch |-> 0,
                   rejected |-> FALSE, was |-> isPlaying]

\* setRightPanelMode(mode), from the two tabs: the panel of the other mode is
\* unmounted and loses its state, the panel of `mode` mounts with
\* useState(false), useState(lyrics) and useState('').
setRightPanelMode(mode) ==
    /\ mode \in {"chat", "lyrics"}
    /\ mode # rightPanelMode
    /\ rightPanelMode' = mode
    /\ isEditing' = FALSE
    /\ editedLyrics' = IF mode = "lyrics" THEN lyrics ELSE NoText
    /\ chatInput' = ""
    /\ last' = EditorLast("setRightPanelMode")
    /\ UNCHANGED lyrics
    /\ OutsideEditor

\* An edit/cancel button that leaves the draft as it is.
toggleEditingKeepsDraft ==
    /\ rightPanelMode = "lyrics"
    /\ ~isLyricsLoading
    /\ isEditing' = ~isEditing
    /\ UNCHANGED editedLyrics
    /\ last' = EditorLast("toggleEditing")
    /\ UNCHANGED <<rightPanelMode, lyrics, chatInput>>
    /\ OutsideEditor

\* onClick={() => setIsEditing(!isEditing)} of the edit/cancel button, shown
\* while the lyrics are not loading; the effect on [lyrics, isEditing] follows.
toggleEditing ==
    /\ rightPanelMode = "lyrics"
    /\ ~isLyricsLoading
    /\ isEditing' = ~isEditing
    /\ editedLyrics' = IF ~isEditing' THEN lyrics ELSE editedLyrics
    /\ last' = EditorLast("toggleEditing")
    /\ UNCHANGED <<rightPanelMode, lyrics, chatInput>>
    /\ OutsideEditor

\* onChange of the textarea: setEditedLyrics(e.target.value)
setEditedLyrics(text) ==
    /\ rightPanelMode = "lyrics"
    /\ ~isLyricsLoading
    /\ isEditing
    /\ editedLyrics' = text
    /\ last' = EditorLast("setEditedLyrics")
    /\ UNCHANGED <<rightPanelMode, isEditing, lyrics, chatInput>>
    /\ OutsideEditor

\* handleSave: onUpdateLyrics(editedLyrics), setIsEditing(false); the effect
\* on [lyrics, isEditing] follows.
handleSave ==
    /\ rightPanelMode = "lyrics"
    /\ ~isLyricsLoading
    /\ isEditing
    /\ lyrics' = editedLyrics
    /\ isEditing' = FALSE
    /\ editedLyrics' = lyrics'
    /\ last' = EditorLast("handleSave")
    /\ UNCHANGED <<rightPanelMode, chatInput>>
    /\ OutsideEditor

\* -------------------------------------------------------------- visualizer
\* The number num/den in fixed point: one unit is 1/300, so that a pixel of a
\* drag (1/150) and a step of a range input (1/10) are whole numbers of units.
Fixed(num, den) == (num * 300) \div den

MathMin(a, b) == IF a < b THEN a ELSE b

MathMax(a, b) == IF a > b THEN a ELSE b

\* useState<VisualizerPreset[]>([...]): the three presets the app starts with.
InitialPresets ==
    << [id |-> 1, name |-> "Chill Vibe", mode |-> "orb", color |-> "#4f46e5",
        intensity |-> Fixed(8, 10), speed |-> Fixed(5, 10)],
       [id |-> 2, name |-> "Rave Mode", mode |-> "bars", color |-> "#ec4899",
        intensity |-> Fixed(2, 1), speed |-> Fixed(25, 10)],
       [id |-> 3, name |-> "Cyber Wave", mode |-> "wave", color |-> "#10b981",
        intensity |-> Fixed(12, 10), speed |-> Fixed(1, 1)] >>

\* useRef({...}) of useVisualizerDrag in a visualizer that has just mounted.
InitialDragState ==
    [isDragging |-> FALSE, startPos |-> [x |-> 0, y |-> 0],
     startIntensity |-> 0, startSpeed |-> 0]

\* Each mode renders a visualizer component of its own: a change of mode
\* unmounts the one and mounts the other, with a new ref.
Remount(mode) == IF mode # visualizerMode THEN InitialDragState ELSE dragState

\* The visualizer that is unmounted takes its pointer capture with it.
CaptureAfterRemount(mode) ==
    IF mode # visualizerMode /\ capture = "visualizer" THEN "none" ELSE capture

\* useRef(0) of the WaveVisualizer that mounts.
TimeAfterRemount(mode) == IF mode # visualizerMode THEN 0 ELSE timeRef

InitVisual ==
    /\ visualizerMode = "orb"
    /\ visualSettings = [intensity |-> Fixed(1, 1), speed |-> Fixed(1, 1)]
    /\ presets = InitialPresets
    /\ newPresetName = ""
    /\ dragState = InitialDragState
    /\ sliderActive = [intensity |-> FALSE, speed |-> FALSE]
    /\ pointer = [x |-> 0, y |-> 0]
    /\ capture = "none"
    /\ hovered = [intensity |-> FALSE, speed |-> FALSE]
    /\ average = 0
    /\ timeRef = 0

\* What a control-surface action leaves alone outside the visualizer.
OutsideVisualizer == UNCHANGED <<playerVars, ytVars, svcVars>>

\* onChangeIntensity and onChangeSpeed: setVisualSettings(prev => ({...prev, key: val}))
onChange(settings, key, val) == [settings EXCEPT ![key] = val]

\* useVisualizerDrag.onPointerDown at client position (x, y).
onPointerDown(x, y) ==
    /\ dragState' = [isDragging |-> TRUE, startPos |-> [x |-> x, y |-> y],
                     startIntensity |-> visualSettings.intensity,
                     startSpeed |-> visualSettings.speed]
    /\ pointer' = [x |-> x, y |-> y]
    /\ UNCHANGED <<visualizerMode, visualSettings, presets, newPresetName,
                   sliderActive, visualColor>>
    /\ capture' = "visualizer"
    /\ UNCHANGED <<hovered, average, timeRef>>
    /\ OutsideVisualizer

\* deltaX / 150 and -deltaY / 150, in fixed point.
SpeedChange(deltaX) == Fixed(deltaX, 150)

IntensityChange(deltaY) == Fixed(0 - deltaY, 150)

\* A drag whose Y axis is not inverted.
NewIntensitySameAxis(ds, y) ==
    MathMax(Fixed(1, 10),
            MathMin(Fixed(3, 1), ds.startIntensity + Fixed(y - ds.startPos.y, 150)))

\* Math.max(0, Math.min(4.0, startSpeed + speedChange))
NewSpeed(ds, x) ==
    MathMax(0, MathMin(Fixed(4, 1), ds.startSpeed + SpeedChange(x - ds.startPos.x)))

\* Math.max(0.1, Math.min(3.0, startIntensity + intensityChange))
NewIntensity(ds, y) ==
    MathMax(Fixed(1, 10),
            MathMin(Fixed(3, 1), ds.startIntensity + IntensityChange(y - ds.startPos.y)))

\* useVisualizerDrag.onPointerMove at client position (x, y).
onPointerMove(x, y) ==
    /\ visualSettings' =
          IF ~dragState.isDragging THEN visualSettings
          ELSE onChange(onChange(visualSettings, "speed", NewSpeed(dragState, x)),
                        "intensity", NewIntensity(dragState, y))
    /\ pointer' = [x |-> x, y |-> y]
    /\ UNCHANGED <<visualizerMode, presets, newPresetName, dragState,
                   sliderActive, visualColor>>
    /\ UNCHANGED <<capture, hovered, average, timeRef>>
    /\ OutsideVisualizer

\* useVisualizerDrag.onPointerUp, which is onPointerOut as well.
onPointerUp ==
    /\ dragState' = IF ~dragState.isDragging THEN dragState
                    ELSE [dragState EXCEPT !.isDragging = FALSE]
    /\ UNCHANGED <<pointer, visualizerMode, visualSettings, presets, newPresetName,
                   sliderActive, visualColor>>
    /\ capture' = IF dragState.isDragging /\ capture = "visualizer"
                   THEN "none" ELSE capture
    /\ UNCHANGED <<hovered, average, timeRef>>
    /\ OutsideVisualizer

\* The two Slider3D of InteractiveControls, named by the setting they change.
Sliders == {"intensity", "speed"}

\* min and max of a Slider3D.
SliderMin(key) == IF key = "intensity" THEN Fixed(1, 10) ELSE 0

SliderMax(key) == IF key = "intensity" THEN Fixed(3, 1) ELSE Fixed(4, 1)

\* height = 3 and position[1] = 0 of both sliders.
SliderHeight == Fixed(3, 1)

SliderY == Fixed(0, 1)

\* Slider3D.updateValue without its clamp of localY.
NewValueUnclamped(key, pointY) ==
    SliderMin(key)
      + (((pointY - SliderY) + SliderHeight \div 2) * (SliderMax(key) - SliderMin(key)))
          \div SliderHeight

\* Slider3D.updateValue(pointY): the value for a pointer at height pointY.
NewValue(key, pointY) ==
    LET localY == MathMax(0 - SliderHeight \div 2,
                          MathMin(SliderHeight \div 2, pointY - SliderY))
    IN  SliderMin(key)
          + ((localY + SliderHeight \div 2) * (SliderMax(key) - SliderMin(key)))
              \div SliderHeight

\* Slider3D.bind.onPointerDown with e.point.y = pointY.
sliderPointerDown(key, pointY) ==
    /\ sliderActive' = [sliderActive EXCEPT ![key] = TRUE]
    /\ visualSettings' = onChange(visualSettings, key, NewValue(key, pointY))
    /\ UNCHANGED <<pointer, visualizerMode, presets, newPresetName, dragState, visualColor>>
    /\ capture' = key
    /\ UNCHANGED <<hovered, average, timeRef>>
    /\ OutsideVisualizer

\* Slider3D.bind.onPointerMove
sliderPointerMove(key, pointY) ==
    /\ visualSettings' = IF sliderActive[key]
                         THEN onChange(visualSettings, key, NewValue(key, pointY))
                         ELSE visualSettings
    /\ UNCHANGED <<pointer, visualizerMode, presets, newPresetName, dragState,
                   sliderActive, visualColor>>
    /\ UNCHANGED <<capture, hovered, average, timeRef>>
    /\ OutsideVisualizer

\* Slider3D.bind.onPointerUp
sliderPointerUp(key) ==
    /\ sliderActive' = [sliderActive EXCEPT ![key] = FALSE]
    /\ UNCHANGED <<pointer, visualizerMode, visualSettings, presets, newPresetName,
                   dragState, visualColor>>
    /\ capture' = IF capture = key THEN "none" ELSE capture
    /\ UNCHANGED <<hovered, average, timeRef>>
    /\ OutsideVisualizer

\* min, max and step of the range inputs of the settings popup.
RangeMin(key) == IF key = "intensity" THEN Fixed(1, 10) ELSE 0

RangeMax(key) == IF key = "intensity" THEN Fixed(25, 10) ELSE Fixed(3, 1)

RangeStep == Fixed(1, 10)

\* The values the browser lets a range input take.
RangeValues(key) ==
    {v \in RangeMin(key)..RangeMax(key) : (v - RangeMin(key)) % RangeStep = 0}

\* onChange of a range input: setVisualSettings({...visualSettings, key: value})
rangeInput(key, value) ==
    /\ value \in RangeValues(key)
    /\ visualSettings' = [visualSettings EXCEPT ![key] = value]
    /\ UNCHANGED <<pointer, visualizerMode, presets, newPresetName, dragState,
                   sliderActive, visualColor>>
    /\ UNCHANGED <<capture, hovered, average, timeRef>>
    /\ OutsideVisualizer

\* onChange of the preset form's text input.
setNewPresetName(name) ==
    /\ newPresetName' = name
    /\ UNCHANGED <<pointer, visualizerMode, visualSettings, presets, dragState,
                   sliderActive, visualColor>>
    /\ UNCHANGED <<capture, hovered, average, timeRef>>
    /\ OutsideVisualizer

\* String.prototype.trim on the names of the model: " " is the blank name.
Trim(name) == IF name = " " THEN "" ELSE name

\* Date.now().toString(): an id no preset of the list has.
RECURSIVE MaxPresetId(_)
MaxPresetId(ps) ==
    IF ps = <<>> THEN 0 ELSE MathMax(Head(ps).id, MaxPresetId(Tail(ps)))

\* A save that overwrites the preset of the same name, if there is one.
savePresetUpsert ==
    /\ newPresetName # ""
    /\ IF Trim(newPresetName) = ""
       THEN UNCHANGED <<presets, newPresetName>>
       ELSE /\ presets' =
                  IF \E k \in 1..Len(presets) : presets[k].name = newPresetName
                  THEN [k \in 1..Len(presets) |->
                          IF presets[k].name = newPresetName
                          THEN [presets[k] EXCEPT !.mode = visualizerMode,
                                                  !.color = visualColor,
                                                  !.intensity = visualSettings.intensity,
                                                  !.speed = visualSettings.speed]
                          ELSE presets[k]]
                  ELSE Append(presets,
                         [id |-> MaxPresetId(presets) + 1, name |-> newPresetName,
                          mode |-> visualizerMode, color |-> visualColor,
                          intensity |-> visualSettings.intensity,
                          speed |-> visualSettings.speed])
            /\ newPresetName' = ""
    /\ UNCHANGED <<pointer, visualizerMode, visualSettings, dragState, sliderActive, visualColor>>
    /\ UNCHANGED <<capture, hovered, average, timeRef>>
    /\ OutsideVisualizer

\* savePreset, from the Save button (disabled while the name is empty).
savePreset ==
    /\ newPresetName # ""
    /\ IF Trim(newPresetName) = ""
       THEN UNCHANGED <<presets, newPresetName>>
       ELSE /\ presets' = Append(presets,
                   [id |-> MaxPresetId(presets) + 1, name |-> newPresetName,
                    mode |-> visualizerMode, color |-> visualColor,
                    intensity |-> visualSettings.intensity,
                    speed |-> visualSettings.speed])
            /\ newPresetName' = ""
    /\ UNCHANGED <<pointer, visualizerMode, visualSettings, dragState, sliderActive, visualColor>>
    /\ UNCHANGED <<capture, hovered, average, timeRef>>
    /\ OutsideVisualizer

\* loadPreset(preset), from a row of the preset list.
loadPreset(preset) ==
    /\ \E k \in 1..Len(presets) : presets[k] = preset
    /\ visualizerMode' = preset.mode
    /\ visualColor' = preset.color
    /\ visualSettings' = [intensity |-> preset.intensity, speed |-> preset.speed]
    /\ dragState' = Remount(preset.mode)
    /\ UNCHANGED <<pointer, presets, newPresetName, sliderActive>>
    /\ capture' = CaptureAfterRemount(preset.mode)
    /\ timeRef' = TimeAfterRemount(preset.mode)
    /\ UNCHANGED <<hovered, average>>
    /\ OutsideVisualizer

\* deletePreset(id, e), from the bin of a row of the preset list.
deletePreset(id) ==
    /\ presets' = SelectSeq(presets, LAMBDA p : p.id # id)
    /\ UNCHANGED <<pointer, visualizerMode, visualSettings, newPresetName, dragState,
                   sliderActive, visualColor, capture, hovered, average, timeRef>>
    /\ OutsideVisualizer

\* const modes: VisualizerMode[] = ['orb', 'bars', 'wave']
Modes == <<"orb", "bars", "wave">>

\* Array.prototype.indexOf: the first index (from 0) of x in seq, or -1.
IndexOf(seq, x) ==
    IF \E k \in 1..Len(seq) : seq[k] = x
    THEN (CHOOSE k \in 1..Len(seq) : seq[k] = x /\ \A j \in 1..(k - 1) : seq[j] # x) - 1
    ELSE 0 - 1

\* A switch that never leaves the last mode of the list.
NextModeNoWrap(mode) ==
    Modes[MathMin(IndexOf(Modes, mode) + 1, Len(Modes) - 1) + 1]

\* modes[(currentIdx + 1) % modes.length]
NextMode(mode) == Modes[((IndexOf(Modes, mode) + 1) % Len(Modes)) + 1]

\* switchVisualizer, from a click on the mode switcher of InteractiveControls.
switchVisualizer ==
    /\ visualizerMode' = NextMode(visualizerMode)
    /\ dragState' = Remount(NextMode(visualizerMode))
    /\ capture' = CaptureAfterRemount(NextMode(visualizerMode))
    /\ timeRef' = TimeAfterRemount(NextMode(visualizerMode))
    /\ UNCHANGED <<pointer, visualSettings, presets, newPresetName, sliderActive,
                   visualColor, hovered, average>>
    /\ OutsideVisualizer

\* const colors = [...]: the palette of InteractiveControls.
Colors == {"#22d3ee", "#a855f7", "#ec4899", "#10b981", "#f97316"}

\* onClick of a ColorOrb: onChangeColor(c), which is setVisualColor.
onChangeColor(c) ==
    /\ c \in Colors
    /\ visualColor' = c
    /\ UNCHANGED <<pointer, visualizerMode, visualSettings, presets, newPresetName,
                   dragState, sliderActive, capture, hovered, average, timeRef>>
    /\ OutsideVisualizer

\* Slider3D.bind.onPointerOver
sliderPointerOver(key) ==
    /\ hovered' = [hovered EXCEPT ![key] = TRUE]
    /\ UNCHANGED <<pointer, visualizerMode, visualSettings, presets, newPresetName,
                   dragState, sliderActive, visualColor, capture, average, timeRef>>
    /\ OutsideVisualizer

\* Slider3D.bind.onPointerOut: the cursor and `hovered` only.
sliderPointerOut(key) ==
    /\ hovered' = [hovered EXCEPT ![key] = FALSE]
    /\ UNCHANGED <<pointer, visualizerMode, visualSettings, presets, newPresetName,
                   dragState, sliderActive, visualColor, capture, average, timeRef>>
    /\ OutsideVisualizer

\* The levels of a byte of getByteFrequencyData.
ByteLevels == 0..255

\* A sampler that writes the level it samples into the intensity.
useFrameSetsIntensity(level) ==
    /\ level \in ByteLevels
    /\ visualizerMode # "wave"
    /\ average' = level
    /\ visualSettings' = [visualSettings EXCEPT !.intensity = Fixed(level, 255)]
    /\ UNCHANGED <<pointer, visualizerMode, presets, newPresetName,
                   dragState, sliderActive, visualColor, capture, hovered, timeRef>>
    /\ OutsideVisualizer

\* useFrame of OrbVisualizer and of BarsVisualizer: getFrequencyData samples
\* the analyser and the scene follows the sample.
useFrame(level) ==
    /\ level \in ByteLevels
    /\ visualizerMode # "wave"
    /\ average' = level
    /\ UNCHANGED <<pointer, visualizerMode, visualSettings, presets, newPresetName,
                   dragState, sliderActive, visualColor, capture, hovered, timeRef>>
    /\ OutsideVisualizer

\* A wave whose time is the frame's delta scaled by the speed, not a sum.
waveUseFrameRecomputes(level, delta) ==
    /\ level \in ByteLevels
    /\ delta >= 0
    /\ visualizerMode = "wave"
    /\ average' = level
    /\ timeRef' = delta * visualSettings.speed
    /\ UNCHANGED <<pointer, visualizerMode, visualSettings, presets, newPresetName,
                   dragState, sliderActive, visualColor, capture, hovered>>
    /\ OutsideVisualizer

\* useFrame of WaveVisualizer, `delta` after the frame before it:
\* timeRef.current += delta * speed, with the speed of the latest render.
waveUseFrame(level, delta) ==
    /\ level \in ByteLevels
    /\ delta >= 0
    /\ visualizerMode = "wave"
    /\ average' = level
    /\ timeRef' = timeRef + delta * visualSettings.speed
    /\ UNCHANGED <<pointer, visualizerMode, visualSettings, presets, newPresetName,
                   dragState, sliderActive, visualColor, capture, hovered>>
    /\ OutsideVisualizer

\* ------------------------------------------------------- YouTubeAudioPlayer
\* The states getPlayerState() reports: unstarted, ended, playing, paused,
\* buffering, cued.
PlayerStates == {0 - 1, 0, 1, 2, 3, 5}

\* The videos and the volumes (in hundredths) the parent passes.
VideoIds == {1, 2}

Volumes == {30, 70}

YtProps == [videoId : VideoIds, isPlaying : BOOLEAN, volume : Volumes]

\* The adapter after its first render: the script is requested, no player yet.
InitYouTube ==
    /\ ytProps = [videoId |-> 1, isPlaying |-> FALSE, volume |-> 70]
    /\ ytMounted = ytProps
    /\ ytPlayer = "none"
    /\ ytState = 0 - 1
    /\ ytVideo = 0
    /\ ytVolume = 100
    /\ ytLast = [op |-> "mount", cmds |-> <<>>, ended |-> FALSE]

OutsideAdapter == UNCHANGED <<playerVars, visualColor, visVars, svcVars>>

\* The callback of YT.ready in initializePlayer: the player object is built
\* from the props of the render that mounted the adapter.
ytPlayerCreated ==
    /\ ytPlayer = "none"
    /\ ytPlayer' = "created"
    /\ ytVideo' = ytMounted.videoId
    /\ ytLast' = [op |-> "created", cmds |-> <<>>, ended |-> FALSE]
    /\ UNCHANGED <<ytProps, ytMounted, ytState, ytVolume>>
    /\ OutsideAdapter

\* volume * 100, for a volume held in hundredths.
Percent(volume) == (volume * 100) \div 100

\* events.onReady: the player's methods exist from now on.
ytOnReady ==
    /\ ytPlayer = "created"
    /\ ytPlayer' = "ready"
    /\ ytVolume' = Percent(ytMounted.volume)
    /\ ytLast' = [op |-> "ready", cmds |-> <<"setVolume">>, ended |-> FALSE]
    /\ UNCHANGED <<ytProps, ytMounted, ytState, ytVideo>>
    /\ OutsideAdapter

\* The play/pause effect without its look at the reported state.
PlayPauseAlways(playing, state) ==
    IF playing THEN <<"playVideo">> ELSE <<"pauseVideo">>

\* The play/pause effect on a ready player that reports `state`.
PlayPauseCommands(playing, state) ==
    IF playing /\ state # 1 /\ state # 3 THEN <<"playVideo">>
    ELSE IF ~playing /\ state = 1 THEN <<"pauseVideo">>
    ELSE <<>>

\* A render with new props p: the effects whose dependency changed run, in
\* the order of their declaration, each behind its guard on playerRef.current.
ytRender(p) ==
    /\ p # ytProps
    /\ ytProps' = p
    /\ LET ready == ytPlayer = "ready"
           loads == ready /\ p.videoId # ytProps.videoId
           plays == IF ready /\ p.isPlaying # ytProps.isPlaying
                    THEN PlayPauseCommands(p.isPlaying, ytState) ELSE <<>>
           sets  == ready /\ p.volume # ytProps.volume
       IN  /\ ytVideo' = IF loads THEN p.videoId ELSE ytVideo
           /\ ytVolume' = IF sets THEN Percent(p.volume) ELSE ytVolume
           /\ ytLast' = [op |-> "render",
                         cmds |-> (IF loads THEN <<"loadVideoById">> ELSE <<>>)
                                  \o plays
                                  \o (IF sets THEN <<"setVolume">> ELSE <<>>),
                         ended |-> FALSE]
    /\ UNCHANGED <<ytMounted, ytPlayer, ytState>>
    /\ OutsideAdapter

\* events.onStateChange: the player reports a new state; 0 calls onEnded().
ytStateChange(state) ==
    /\ ytPlayer # "none"
    /\ state # ytState
    /\ ytState' = state
    /\ ytLast' = [op |-> "stateChange", cmds |-> <<>>, ended |-> state = 0]
    /\ UNCHANGED <<ytProps, ytMounted, ytPlayer, ytVideo, ytVolume>>
    /\ OutsideAdapter

\* ------------------------------------------------------------ PlayerControls
\* The characters of a lyrics text: two letters, the space and the newline.
Chars == {"a", "b", " ", "\n"}

\* String.prototype.split('\n') of a text, a sequence of characters: the
\* segments between the newlines, the empty ones included.
RECURSIVE Split(_)
Split(text) ==
    IF text = <<>> THEN << <<>> >>
    ELSE LET rest == Split(Tail(text))
         IN  IF Head(text) = "\n" THEN << <<>> >> \o rest
             ELSE << <<Head(text)>> \o Head(rest) >> \o Tail(rest)

\* line.trim() !== ''
NonBlank(line) == \E k \in 1..Len(line) : line[k] # " "

\* lyrics.split('\n').filter(line => line.trim() !== '')
Lines(text) == SelectSeq(Split(text), NonBlank)

\* null, which no line is: the lines returned are not empty.
Null == <<>>

\* !duration: 0 and NaN (audio.duration before the metadata) are falsy.
Falsy(duration) == duration = 0 \/ duration = NaN

\* An estimator that does not clamp its index: past the end, lines[index] is
\* undefined.
LyricLineUnclamped(text, currentTime, duration) ==
    LET lines == Lines(text)
    IN  IF Len(lines) = 0 \/ Falsy(duration) \/ text = <<>> THEN Null
        ELSE LET currentIndex == (currentTime * Len(lines)) \div duration
             IN  IF currentIndex < Len(lines) THEN lines[currentIndex + 1] ELSE Null

\* useCurrentLyricLine(lyrics, currentTime, duration), in exact arithmetic:
\* currentTime / (duration / lines.length) is currentTime * lines.length / duration.
useCurrentLyricLine(text, currentTime, duration) ==
    LET lines == Lines(text)
    IN  IF Len(lines) = 0 \/ Falsy(duration) \/ text = <<>> THEN Null
        ELSE LET currentIndex ==
                     MathMin(Len(lines) - 1, (currentTime * Len(lines)) \div duration)
             IN  lines[currentIndex + 1]

\* PlayerControls before any lyrics, time update or duration change.
InitControls ==
    playerControls = [lyrics |-> <<>>, currentTime |-> 0, duration |-> 0,
                      currentLyric |-> Null]

\* A render of PlayerControls with the props (lyrics, currentTime, duration).
renderControls(text, currentTime, duration) ==
    /\ playerControls' =
          [lyrics |-> text, currentTime |-> currentTime, duration |-> duration,
           currentLyric |-> useCurrentLyricLine(text, currentTime, duration)]
    /\ UNCHANGED <<playerVars, visualColor, visVars, ytVars, aiLast, searchLast, dbVars,
                   chatVars>>

\* ------------------------------------------------------------- AI service
\* title.length + artist.length of the demo tracks.
NameLength(track) == IF track = 2 THEN 10 + 9 ELSE IF track = 1 THEN 11 + 10 ELSE 13 + 8

\* An error the SDK or the network layer throws: an Error with a message (a
\* sequence of words, <<>> for the empty message), a status and an
\* error.code (0: undefined).
Errors ==
    [message : {<<>>, <<"Failed", "to", "fetch">>, <<"got", "429">>,
                <<"quota", "exceeded">>, <<"RESOURCE_EXHAUSTED">>},
     status : {0, 429, 500},
     code : {0, 429}]

\* msg.includes(word)
Includes(msg, word) == \E k \in 1..Len(msg) : msg[k] = word

\* JSON.stringify(error): the own properties that are defined.
Stringify(error) ==
    (IF error.status = 0 THEN <<>> ELSE <<"status", ToString(error.status)>>)
      \o (IF error.code = 0 THEN <<>> ELSE <<"error", "code", ToString(error.code)>>)

\* isQuotaError(error)
isQuotaError(error) ==
    LET msg == IF error.message # <<>> THEN error.message ELSE Stringify(error)
    IN  \/ error.status = 429
        \/ error.code = 429
        \/ Includes(msg, "429")
        \/ Includes(msg, "quota")
        \/ Includes(msg, "RESOURCE_EXHAUSTED")

\* What the backend does with a request: it answers with a text (""
\* for none), or the call throws an error.
Answer(text) == [ok |-> TRUE, text |-> text, error |-> 0]

Failure(error) == [ok |-> FALSE, text |-> "", error |-> error]

\* How an async function settles.
Resolved(value) == [rejected |-> FALSE, value |-> value]

Rejected(error) == [rejected |-> TRUE, value |-> error]

\* generateDJResponse(userMessage, currentTrack)
generateDJResponse(track, outcome) ==
    IF outcome.ok
    THEN Resolved(IF outcome.text # "" THEN outcome.text
                  ELSE "I'm vibing too hard to answer right now.")
    ELSE IF isQuotaError(outcome.error)
         THEN Resolved("I'm currently recharging my neural networks (Quota Exceeded). Catch you later!")
         ELSE Resolved("Connection to the grid lost.")

\* The texts a vibe request is answered with: none, text that is not JSON,
\* the JSON null, or a JSON object whose color and description may be missing ("").
VibeTexts ==
    [json : {"none", "invalid", "null"}, color : {""}, description : {""}]
      \cup [json : {"object"}, color : {"", "#ff0055"}, description : {"", "Electric."}]

\* JSON.parse(response.text || '{}') followed by the reads json.color and
\* json.description: the object read, or the error thrown.
ParseVibe(text) ==
    IF text.json = "invalid"
    THEN Failure([message |-> <<"Unexpected", "token">>, status |-> 0, code |-> 0])
    ELSE IF text.json = "null"
    THEN Failure([message |-> <<"Cannot", "read", "properties", "of", "null">>,
                  status |-> 0, code |-> 0])
    ELSE Answer([color |-> text.color, description |-> text.description])

\* const colors = [...] of the quota fallback.
FallbackColors == <<"#ef4444", "#3b82f6", "#10b981", "#f59e0b", "#8b5cf6", "#ec4899">>

\* The catch block of analyzeTrackVibe.
VibeCatch(track, error) ==
    IF isQuotaError(error)
    THEN Resolved([color |-> FallbackColors[(NameLength(track) % Len(FallbackColors)) + 1],
                   description |-> "Vibe analysis offline (Quota Limit)."])
    ELSE Resolved([color |-> "#6366f1", description |-> "Unknown frequency detected."])

\* analyzeTrackVibe(track)
analyzeTrackVibe(track, outcome) ==
    IF ~outcome.ok THEN VibeCatch(track, outcome.error)
    ELSE LET json == ParseVibe(outcome.text)
         IN  IF ~json.ok THEN VibeCatch(track, json.error)
             ELSE Resolved(
                    [color |-> IF json.text.color # "" THEN json.text.color ELSE "#6366f1",
                     description |-> IF json.text.description # ""
                                     THEN json.text.description
                                     ELSE "A mystery track from the void."])

\* A lyrics fetch that lets the errors that are not quota errors through.
fetchLyricsRethrows(track, outcome) ==
    IF outcome.ok THEN Resolved(outcome.text)
    ELSE IF isQuotaError(outcome.error)
         THEN Resolved("Lyrics unavailable: API Quota Limit Exceeded.\n\nPlease try again later or manually add lyrics.")
         ELSE Rejected(outcome.error)

\* fetchLyrics(track)
fetchLyrics(track, outcome) ==
    IF outcome.ok THEN Resolved(outcome.text)
    ELSE IF isQuotaError(outcome.error)
         THEN Resolved("Lyrics unavailable: API Quota Limit Exceeded.\n\nPlease try again later or manually add lyrics.")
         ELSE Resolved("")

\* A string of the service as a lyrics text of App: '' is the empty text.
Text(str) == IF str = "" THEN NoText ELSE <<"text", str>>

\* The lyrics request for track id settles, the backend having answered or
\* failed with `outcome`: fetchLyricsForCurrentTrack goes on after its await
\* with what fetchLyrics returns.
lyricsSettled(id, outcome) ==
    lyricsResolved(id, Text(fetchLyrics(id, outcome).value))

\* No AI call has settled yet.
InitAI == aiLast = [kind |-> "none", track |-> 0, outcome |-> Answer(""),
                    result |-> Resolved("")]

\* A call of one of the three functions, from the request to its settling.
aiCall(kind, track, outcome) ==
    /\ aiLast' = [kind |-> kind, track |-> track, outcome |-> outcome,
                  result |-> IF kind = "chat" THEN generateDJResponse(track, outcome)
                             ELSE IF kind = "vibe" THEN analyzeTrackVibe(track, outcome)
                             ELSE fetchLyrics(track, outcome)]
    /\ UNCHANGED <<playerVars, visualColor, visVars, ytVars, playerControls, searchLast,
                   dbVars, chatVars>>

\* ------------------------------------------------------------------- chat
\* INITIAL_DJ_MESSAGE, the text of the message the transcript starts with.
INITIAL_DJ_MESSAGE ==
    "Welcome to NeonFlow. I'm your AI DJ. Drop a track or ask me to set the vibe!"

\* A ChatMessage: its sender and its text (id and timestamp are read by
\* nothing but the key of the row).
ChatMessage(sender, text) == [sender |-> sender, text |-> text]

InitChat ==
    /\ chatMessages = <<ChatMessage("ai", INITIAL_DJ_MESSAGE)>>
    /\ isAiTyping = FALSE
    /\ chatInput = ""
    /\ chatInFlight = {}
    /\ chatSent = 0

OutsideChat ==
    UNCHANGED <<playerVars, visualColor, visVars, ytVars, playerControls, aiLast,
                searchLast, dbVars>>

\* AIChat's input: onChange={(e) => setInput(e.target.value)}
setInput(value) ==
    /\ rightPanelMode = "chat"
    /\ chatInput' = value
    /\ UNCHANGED <<chatMessages, isAiTyping, chatInFlight, chatSent>>
    /\ OutsideChat

\* A send that puts the user's message at the head of the transcript.
handleUserMessagePrepends(text) ==
    /\ chatMessages' = <<ChatMessage("user", text)>> \o chatMessages
    /\ isAiTyping' = TRUE
    /\ chatInFlight' = chatInFlight \cup
          {[n |-> chatSent + 1, text |-> text, track |-> currentTrack.id]}
    /\ chatSent' = chatSent + 1

\* handleUserMessage(text) up to its await: the user's message is appended,
\* the indicator is set and the request is made for the current track.
handleUserMessage(text) ==
    /\ chatMessages' = Append(chatMessages, ChatMessage("user", text))
    /\ isAiTyping' = TRUE
    /\ chatInFlight' = chatInFlight \cup
          {[n |-> chatSent + 1, text |-> text, track |-> currentTrack.id]}
    /\ chatSent' = chatSent + 1

\* AIChat.handleSubmit: a blank input is not sent; the input is cleared after
\* a send. Nothing disables the form while a response is awaited.
handleSubmit ==
    /\ rightPanelMode = "chat"
    /\ chatSent < MaxMessages
    /\ IF Trim(chatInput) = ""
       THEN UNCHANGED chatVars
       ELSE handleUserMessage(chatInput) /\ chatInput' = ""
    /\ OutsideChat

\* The continuation of handleUserMessage after its await: the indicator is
\* cleared and the response is appended.
chatResolved(request, outcome) ==
    /\ request \in chatInFlight
    /\ chatInFlight' = chatInFlight \ {request}
    /\ isAiTyping' = FALSE
    /\ chatMessages' = Append(chatMessages,
          ChatMessage("ai", generateDJResponse(request.track, outcome).value))
    /\ UNCHANGED <<chatInput, chatSent>>
    /\ OutsideChat

\* ----------------------------------------------------------- track search
\* A string of the search: its words, and whether it has upper-case letters.
Str(words, upper) == [words |-> words, upper |-> upper]

\* String.prototype.toLowerCase
ToLowerCase(str) == [str EXCEPT !.upper = FALSE]

\* title.includes(query), on lower-case strings: the words of the query are
\* consecutive words of the title.
StrIncludes(str, query) ==
    \E k \in 0..(Len(str.words) - Len(query.words)) :
        \A j \in 1..Len(query.words) : str.words[k + j] = query.words[j]

\* A result of the search: a track with a youtubeId, and no url.
YtTrack(videoId, title, artist) ==
    [id |-> <<"yt", videoId>>, title |-> title, artist |-> artist,
     youtubeId |-> videoId, url |-> NoSrc, up |-> FALSE]

\* MOCK_RESULTS
MOCK_RESULTS ==
    << YtTrack(1, Str(<<"midnight", "city">>, TRUE), Str(<<"m83">>, TRUE)),
       YtTrack(2, Str(<<"starboy">>, TRUE), Str(<<"the", "weeknd">>, TRUE)),
       YtTrack(3, Str(<<"resonance">>, TRUE), Str(<<"home">>, TRUE)),
       YtTrack(4, Str(<<"after", "dark">>, TRUE), Str(<<"mr.", "kitty">>, TRUE)),
       YtTrack(5, Str(<<"lofi", "hip", "hop", "radio">>, TRUE),
                  Str(<<"lofi", "girl">>, TRUE)) >>

\* What a fetch of the search API comes to: the fetch rejects ("network"),
\* the response is not OK ("status"), its body is no JSON ("body") or has no
\* items ("noitems"), or it has the items of videoIds.
Lookup(kind, videoIds) == [kind |-> kind, videoIds |-> videoIds]

\* data.items.map(item => ({...}))
MapItems(videoIds) ==
    [k \in 1..Len(videoIds) |->
        YtTrack(videoIds[k], Str(<<"title", videoIds[k]>>, TRUE),
                Str(<<"channel", videoIds[k]>>, TRUE))]

\* A search that answers a failed lookup with an empty list.
searchNoFallback(query, hasKey, lookup) ==
    IF query.words = <<>> THEN [lookups |-> <<>>, result |-> Resolved(<<>>)]
    ELSE IF ~hasKey \/ ToLowerCase(query) = Str(<<"demo">>, FALSE)
    THEN [lookups |-> <<>>,
          result |-> Resolved(SelectSeq(MOCK_RESULTS, LAMBDA t :
                        \/ StrIncludes(ToLowerCase(t.title), ToLowerCase(query))
                        \/ StrIncludes(ToLowerCase(t.artist), ToLowerCase(query))
                        \/ ToLowerCase(query) = Str(<<"demo">>, FALSE)))]
    ELSE [lookups |-> <<lookup>>,
          result |-> IF lookup.kind = "items" THEN Resolved(MapItems(lookup.videoIds))
                     ELSE Resolved(<<>>)]

\* searchYouTube(query), in a build with or without an API key, the fetch it
\* issues (if any) coming to `lookup`.
searchYouTube(query, hasKey, lookup) ==
    IF query.words = <<>> THEN [lookups |-> <<>>, result |-> Resolved(<<>>)]
    ELSE IF ~hasKey \/ ToLowerCase(query) = Str(<<"demo">>, FALSE)
    THEN [lookups |-> <<>>,
          result |-> Resolved(SelectSeq(MOCK_RESULTS, LAMBDA t :
                        \/ StrIncludes(ToLowerCase(t.title), ToLowerCase(query))
                        \/ StrIncludes(ToLowerCase(t.artist), ToLowerCase(query))
                        \/ ToLowerCase(query) = Str(<<"demo">>, FALSE)))]
    ELSE [lookups |-> <<lookup>>,
          result |-> IF lookup.kind = "items" THEN Resolved(MapItems(lookup.videoIds))
                     ELSE Resolved(MOCK_RESULTS)]

\* No search has settled yet.
InitSearch ==
    searchLast = [query |-> Str(<<>>, FALSE), hasKey |-> FALSE, lookups |-> <<>>,
                  result |-> Resolved(<<>>)]

\* A search, from the call to its settling.
search(query, hasKey, lookup) ==
    /\ searchLast' = [query |-> query, hasKey |-> hasKey,
                      lookups |-> searchYouTube(query, hasKey, lookup).lookups,
                      result |-> searchYouTube(query, hasKey, lookup).result]
    /\ UNCHANGED <<playerVars, visualColor, visVars, ytVars, playerControls, aiLast,
                   dbVars, chatVars>>

\* ----------------------------------------------------------------- storage
\* The database is not opened before the first call.
InitDB ==
    /\ db = "undefined"
    /\ dbStore = {}
    /\ dbOps = <<>>

OutsideStorage ==
    UNCHANGED <<playerVars, visualColor, visVars, ytVars, playerControls, aiLast,
                searchLast, chatVars>>

\* saveTrack, getAllTracks or deleteTrackFromDB is called: the executor runs
\* up to `await initDB()`, which has the database at once (its request is then
\* made) or opens it.
dbCall(op, id) ==
    /\ Len(dbOps) < MaxOps
    /\ dbOps' = Append(dbOps,
          [op |-> op, id |-> id,
           stage |-> IF db = "open" THEN "request" ELSE "opening",
           promise |-> "pending", failed |-> FALSE, value |-> {}])
    /\ UNCHANGED <<db, dbStore>>
    /\ OutsideStorage

\* request.onsuccess of indexedDB.open: initDB resolves, and the executor goes
\* on to its transaction and its request.
openSucceeds(k) ==
    /\ dbOps[k].stage = "opening"
    /\ db' = "open"
    /\ dbOps' = [dbOps EXCEPT ![k].stage = "request"]
    /\ UNCHANGED dbStore
    /\ OutsideStorage

\* request.onerror of indexedDB.open: initDB rejects, `await initDB()` throws
\* inside the async executor, whose own promise nobody holds: neither resolve
\* nor reject of the promise returned to the caller is called.
openFails(k) ==
    /\ dbOps[k].stage = "opening"
    /\ dbOps' = [dbOps EXCEPT ![k].stage = "abandoned", ![k].failed = TRUE]
    /\ UNCHANGED <<db, dbStore>>
    /\ OutsideStorage

\* request.onsuccess of store.put, store.getAll or store.delete.
requestSucceeds(k) ==
    /\ dbOps[k].stage = "request"
    /\ dbStore' = IF dbOps[k].op = "saveTrack" THEN dbStore \cup {dbOps[k].id}
                  ELSE IF dbOps[k].op = "deleteTrackFromDB" THEN dbStore \ {dbOps[k].id}
                  ELSE dbStore
    /\ dbOps' = [dbOps EXCEPT ![k].stage = "settled", ![k].promise = "resolved",
                              ![k].value = IF dbOps[k].op = "saveTrack" THEN {dbOps[k].id}
                                           ELSE IF dbOps[k].op = "getAllTracks" THEN dbStore
                                           ELSE {}]
    /\ UNCHANGED db
    /\ OutsideStorage

\* request.onerror of store.put, store.getAll or store.delete: reject(request.error)
requestFails(k) ==
    /\ dbOps[k].stage = "request"
    /\ dbOps' = [dbOps EXCEPT ![k].stage = "settled", ![k].failed = TRUE,
                              ![k].promise = "rejected"]
    /\ UNCHANGED <<db, dbStore>>
    /\ OutsideStorage

\* The state after the first render of the whole application.
Init == InitPlayer /\ InitVisual /\ InitYouTube /\ InitControls /\ InitAI /\ InitSearch
        /\ InitDB /\ InitChat

\* ------------------------------------------------------------ specifications
\* Playback and lyrics over the demo library: no upload, no playlist, and no
\* answer yet to the vibe requests.
NextPlayback ==
    \/ \E ok \in BOOLEAN : handlePlayPause(ok)
    \/ \E ok \in BOOLEAN : handleNext(ok)
    \/ \E ok \in BOOLEAN : handlePrev(ok)
    \/ \E ok \in BOOLEAN : handleEnded(ok)
    \/ \E i \in 0..(NumDemo - 1), ok \in BOOLEAN : handleTrackSelect(i, Library, ok)
    \/ \E id \in TrackIds : \E text \in {LyricsOf(id), NoText} : lyricsResolved(id, text)
    \/ updateLyrics(EditedText)

SpecPlayback == Init /\ [][NextPlayback]_vars

\* The library and its uploads under the library context, with a host that
\* allows every play() and an AI service that answers the vibe requests only.
NextLibrary ==
    \/ handleNext(TRUE)
    \/ handlePrev(TRUE)
    \/ handleEnded(TRUE)
    \/ \E i \in 0..(NumDemo + MaxUploads - 1) : handleTrackSelect(i, Library, TRUE)
    \/ handleFileUpload
    \/ \E u \in uploads : uploadReady(u, TRUE)
    \/ \E id \in TrackIds : vibeResolved(id, "#6366f1")

SpecLibrary == Init /\ [][NextLibrary]_vars

\* The rows of the library whose "+" the user clicks.
AddRows == {1, 2}

\* The playlists and the playback context over the demo library, with a host
\* that allows every play() and an AI service that has not answered yet.
NextPlaylists ==
    \/ handleNext(TRUE)
    \/ handlePrev(TRUE)
    \/ handleEnded(TRUE)
    \/ \E i \in 0..(NumDemo - 1), c \in 0..MaxPlaylists : handleTrackSelect(i, c, TRUE)
    \/ createPlaylist
    \/ \E p \in 1..MaxPlaylists : deletePlaylist(p)
    \/ \E p \in 1..MaxPlaylists, j \in AddRows : addToPlaylist(p, tracks[j])
    \/ \E p \in 1..MaxPlaylists, id \in TrackIds : removeFromPlaylist(p, id, TRUE)

SpecPlaylists == Init /\ [][NextPlaylists]_vars

\* The positions of the pointer when a drag starts, and where it moves to.
DownAt == {<<0, 150>>, <<1000, 0>>}

MoveTo == {<<150, 0>>, <<0, 1000>>}

\* The two-axis drag on the visualizer alone.
NextDrag ==
    \/ \E p \in DownAt : ~dragState.isDragging /\ onPointerDown(p[1], p[2])
    \/ \E p \in MoveTo : onPointerMove(p[1], p[2])
    \/ onPointerUp

SpecDrag == Init /\ [][NextDrag]_vars

\* A gesture holds the pointer.
Captured == dragState.isDragging \/ sliderActive.intensity \/ sliderActive.speed

\* Where the pointer is put on a slider, what the range inputs are set to,
\* the name the user types.
PointYs == {Fixed(0 - 2, 1), Fixed(2, 1)}

RangeInputs == [intensity |-> {Fixed(2, 1)}, speed |-> {Fixed(1, 1)}]

PresetNames == {"mine"}

\* A preset of the list holds the current intensity and speed.
AtPreset ==
    \E k \in 1..Len(presets) :
        /\ presets[k].intensity = visualSettings.intensity
        /\ presets[k].speed = visualSettings.speed

\* Intensity and speed are both at an end of their ranges.
AtLimits ==
    /\ visualSettings.intensity \in {SliderMin("intensity"), SliderMax("intensity")}
    /\ visualSettings.speed \in {SliderMin("speed"), SliderMax("speed")}

\* The whole control surface with one pointer: while a gesture holds the
\* pointer, the events go to its target. The user drags from the settings of
\* a preset, to the far corners, and saves under a new name what a gesture has
\* driven to its limits.
NextVisual ==
    \/ ~Captured /\ AtPreset /\ onPointerDown(1000, 1000)
    \/ \E p \in {<<0, 2000>>, <<2000, 0>>} :
          dragState.isDragging /\ onPointerMove(p[1], p[2])
    \/ dragState.isDragging /\ onPointerUp
    \/ \E key \in Sliders, y \in PointYs : ~Captured /\ sliderPointerDown(key, y)
    \/ \E key \in Sliders, y \in PointYs : sliderActive[key] /\ sliderPointerMove(key, y)
    \/ \E key \in Sliders : sliderActive[key] /\ sliderPointerUp(key)
    \/ \E key \in Sliders : \E v \in RangeInputs[key] : ~Captured /\ rangeInput(key, v)
    \/ \E name \in PresetNames : ~Captured /\ setNewPresetName(name)
    \/ /\ ~Captured /\ AtLimits
       /\ \A k \in 1..Len(presets) : presets[k].name # newPresetName
       /\ savePreset
    \/ \E k \in 1..Len(presets) : ~Captured /\ loadPreset(presets[k])

SpecVisual == Init /\ [][NextVisual]_vars

\* The adapter under a parent that changes its props and a player that
\* reports its states.
NextYouTube ==
    \/ ytPlayerCreated
    \/ ytOnReady
    \/ \E p \in YtProps : ytRender(p)
    \/ \E state \in PlayerStates : ytStateChange(state)

SpecYouTube == Init /\ [][NextYouTube]_vars

\* The levels the frames sample, the colour the user picks, the colour a vibe
\* analysis answers with (its default, "#6366f1").
FrameLevels == {0, 255}

PickedColors == {"#ec4899"}

VibeColors == {"#6366f1"}

\* The control surface while the user moves on from the first track, the AI
\* service answers the vibe requests and the frames go by: one pointer, as in
\* NextVisual, and a user who loads the second preset only.
NextSurface ==
    \/ currentTrackIndex = 0 /\ handleNext(TRUE)
    \/ \E id \in TrackIds : \E c \in VibeColors : vibeResolved(id, c)
    \/ \E level \in FrameLevels : useFrame(level)
    \/ ~Captured /\ switchVisualizer
    \/ \E c \in PickedColors : ~Captured /\ onChangeColor(c)
    \/ ~Captured /\ loadPreset(presets[2])
    \/ ~Captured /\ AtPreset /\ onPointerDown(1000, 1000)
    \/ dragState.isDragging /\ onPointerMove(2000, 0)
    \/ dragState.isDragging /\ onPointerUp
    \/ \E key \in Sliders : ~Captured /\ sliderPointerDown(key, Fixed(2, 1))
    \/ \E key \in Sliders : sliderActive[key] /\ sliderPointerUp(key)
    \/ \E key \in Sliders : \E v \in RangeInputs[key] : ~Captured /\ rangeInput(key, v)

SpecSurface == Init /\ [][NextSurface]_vars

\* The pointer over the scene: it presses, moves over and leaves the visualizer
\* and the two sliders. A press starts on a target while no target holds the
\* capture; a slider gets its events while the pointer is over it.
NextPointer ==
    \/ \E p \in DownAt : capture = "none" /\ onPointerDown(p[1], p[2])
    \/ \E p \in MoveTo : onPointerMove(p[1], p[2])
    \/ onPointerUp
    \/ \E key \in Sliders : capture = "none" /\ sliderPointerOver(key)
    \/ \E key \in Sliders : \E y \in PointYs :
          hovered[key] /\ capture = "none" /\ sliderPointerDown(key, y)
    \/ \E key \in Sliders : \E y \in PointYs : hovered[key] /\ sliderPointerMove(key, y)
    \/ \E key \in Sliders : hovered[key] /\ sliderPointerUp(key)
    \/ \E key \in Sliders : hovered[key] /\ sliderPointerOut(key)

SpecPointer == Init /\ [][NextPointer]_vars

\* The times (in seconds) of the time updates and the durations of the
\* duration changes, NaN among them.
Times == 0..5

Durations == {0, NaN, 3, 4}

\* PlayerControls while the lyrics grow by a character or are cleared, the
\* time advances or is sought, and the duration changes.
NextControls ==
    \/ \E ch \in Chars :
          /\ Len(playerControls.lyrics) < MaxChars
          /\ renderControls(Append(playerControls.lyrics, ch),
                            playerControls.currentTime, playerControls.duration)
    \/ renderControls(<<>>, playerControls.currentTime, playerControls.duration)
    \/ \E t \in Times :
          renderControls(playerControls.lyrics, t, playerControls.duration)
    \/ \E d \in Durations :
          renderControls(playerControls.lyrics, playerControls.currentTime, d)

SpecControls == Init /\ [][NextControls]_vars

\* The texts a chat or a lyrics request is answered with.
ReplyTexts == {"", "Some text."}

\* The AI service under a backend that answers, or fails with any of Errors.
NextAI ==
    \/ \E track \in 1..NumDemo : \E text \in ReplyTexts : aiCall("chat", track, Answer(text))
    \/ \E track \in 1..NumDemo : \E text \in VibeTexts : aiCall("vibe", track, Answer(text))
    \/ \E track \in 1..NumDemo : \E text \in ReplyTexts : aiCall("lyrics", track, Answer(text))
    \/ \E kind \in {"chat", "vibe", "lyrics"} : \E track \in 1..NumDemo :
          \E error \in Errors : aiCall(kind, track, Failure(error))

SpecAI == Init /\ [][NextAI]_vars

\* The queries the user types, and what the lookups come to.
Queries ==
    {Str(words, upper) :
        words \in {<<>>, <<"demo">>, <<"lofi">>, <<"hip", "hop">>, <<"the", "weeknd">>,
                   <<"home">>, <<"midnight", "city">>, <<"nothing">>},
        upper \in BOOLEAN} \ {Str(<<>>, TRUE)}

Lookups ==
    {Lookup(kind, <<>>) : kind \in {"network", "status", "body", "noitems"}}
      \cup {Lookup("items", ids) : ids \in {<<>>, <<7>>, <<7, 8>>, <<8>>}}

\* The track search under every query, with and without an API key, and
\* under every outcome of the lookup.
NextSearch ==
    \/ \E query \in Queries : \E lookup \in Lookups : search(query, TRUE, lookup)
    \/ \E query \in Queries : search(query, FALSE, Lookup("network", <<>>))

SpecSearch == Init /\ [][NextSearch]_vars

\* The tracks the storage calls are about.
StoredIds == {NumDemo + 1, NumDemo + 2}

\* The storage service under calls of its three operations and a database
\* whose open and whose requests succeed or fail.
NextStorage ==
    \/ \E id \in StoredIds : dbCall("saveTrack", id)
    \/ dbCall("getAllTracks", 0)
    \/ \E id \in StoredIds : dbCall("deleteTrackFromDB", id)
    \/ \E k \in 1..Len(dbOps) : openSucceeds(k)
    \/ \E k \in 1..Len(dbOps) : openFails(k)
    \/ \E k \in 1..Len(dbOps) : requestSucceeds(k)
    \/ \E k \in 1..Len(dbOps) : requestFails(k)

SpecStorage == Init /\ [][NextStorage]_vars

\* The names the user types into the preset form, the blank one among them.
TypedNames == {"mine", " "}

\* The preset list: the user types a name, saves, deletes and loads presets,
\* and moves the intensity slider of the settings popup.
NextPresets ==
    \/ \E name \in TypedNames : setNewPresetName(name)
    \/ MaxPresetId(presets) < MaxPresets /\ savePreset
    \/ \E k \in 1..Len(presets) : deletePreset(presets[k].id)
    \/ \E k \in 1..Len(presets) : loadPreset(presets[k])
    \/ \E v \in RangeInputs.intensity : rangeInput("intensity", v)

SpecPresets == Init /\ [][NextPresets]_vars

\* What the user types into the chat, and what the backend does with a request.
ChatInputs == {"hi", "play", " "}

ChatOutcomes ==
    {Answer("Some text."), Answer(""),
     Failure([message |-> <<"quota", "exceeded">>, status |-> 429, code |-> 0]),
     Failure([message |-> <<"Failed", "to", "fetch">>, status |-> 0, code |-> 0])}

\* The chat: the user types and submits while responses are awaited, and the
\* responses arrive in any order.
NextChat ==
    \/ \E value \in ChatInputs : setInput(value)
    \/ handleSubmit
    \/ \E request \in chatInFlight : \E outcome \in ChatOutcomes :
          chatResolved(request, outcome)

SpecChat == Init /\ [][NextChat]_vars

\* The deltas of the frames: a frame of a 60 Hz display and a frame after a
\* dropped one.
Deltas == {Fixed(1, 60), Fixed(1, 30)}

\* The wave while the frames go by and the user changes the speed with the
\* speed slider and the range input, loads presets and switches the mode.
NextWave ==
    \/ \E delta \in Deltas :
          timeRef < MaxTime * Fixed(1, 1) * Fixed(1, 1) /\ waveUseFrame(0, delta)
    \/ \E y \in PointYs : ~Captured /\ sliderPointerDown("speed", y)
    \/ sliderActive.speed /\ sliderPointerUp("speed")
    \/ \E v \in RangeInputs.speed : ~Captured /\ rangeInput("speed", v)
    \/ \E k \in 1..Len(presets) : ~Captured /\ loadPreset(presets[k])
    \/ ~Captured /\ switchVisualizer

SpecWave == Init /\ [][NextWave]_vars

\* The texts the user types into the lyrics editor.
Drafts == {EditedText, NoText}

\* The lyrics editor while the user opens the lyrics panel, edits, saves and
\* cancels, moves between the first two tracks, and the lyrics requests are
\* answered.
NextEditor ==
    \/ \E mode \in {"chat", "lyrics"} : setRightPanelMode(mode)
    \/ toggleEditing
    \/ \E text \in Drafts : setEditedLyrics(text)
    \/ handleSave
    \/ \E i \in 0..1 : handleTrackSelect(i, Library, TRUE)
    \/ \E id \in TrackIds : \E text \in {LyricsOf(id), NoText} : lyricsResolved(id, text)

SpecEditor == Init /\ [][NextEditor]_vars

\* The transport under a host that allows every play(): the user toggles,
\* selects rows of the library and of the playlists, goes to the next and the
\* previous track, and creates, fills and deletes playlists.
NextTransport ==
    \/ handlePlayPause(TRUE)
    \/ handleNext(TRUE)
    \/ handlePrev(TRUE)
    \/ \E i \in 0..(NumDemo - 1), c \in 0..MaxPlaylists : handleTrackSelect(i, c, TRUE)
    \/ createPlaylist
    \/ \E p \in 1..MaxPlaylists : deletePlaylist(p)
    \/ \E p \in 1..MaxPlaylists, j \in AddRows : addToPlaylist(p, tracks[j])

SpecTransport == Init /\ [][NextTransport]_vars

\* The lyrics of the demo library under a service that answers every
\* request: the user selects a row while the service can take the request the
\* selection makes, or while the row's lyrics are cached, and toggles playback.
NextLoading ==
    \/ \E i \in 0..(NumDemo - 1) :
          /\ Total(lyricsInFlight) < MaxInFlight \/ lyricsCache[tracks[i + 1].id] # NoText
          /\ handleTrackSelect(i, Library, TRUE)
    \/ handlePlayPause(TRUE)
    \/ \E id \in TrackIds : \E text \in {LyricsOf(id), NoText} : lyricsResolved(id, text)

SpecLoading == Init /\ [][NextLoading]_vars

\* What the backend does with a lyrics request: it answers with a text or
\* with none, or the call fails with a quota error or with a network error.
LyricsOutcomes ==
    {Answer("Some text."), Answer(""),
     Failure([message |-> <<"got", "429">>, status |-> 429, code |-> 429]),
     Failure([message |-> <<"Failed", "to", "fetch">>, status |-> 0, code |-> 0])}

\* The lyrics of the demo library under a backend that answers or fails: the
\* user selects rows as in NextLoading.
NextLyrics ==
    \/ \E i \in 0..(NumDemo - 1) :
          /\ Total(lyricsInFlight) < MaxInFlight \/ lyricsCache[tracks[i + 1].id] # NoText
          /\ handleTrackSelect(i, Library, TRUE)
    \/ \E id \in TrackIds : \E outcome \in LyricsOutcomes : lyricsSettled(id, outcome)

SpecLyrics == Init /\ [][NextLyrics]_vars

\* ------------------------------------------------------------------ claims
\* C1: a lyrics response for track A that resolves while another track B is
\* the current one does not put A's text on display.
C1_StaleResponseIgnored ==
    (last.op = "lyricsResolved" /\ last.arg # currentTrack.id)
        => lyrics # LyricsOf(last.arg)

\* i after n presses of Next over a sequence of len rows.
RECURSIVE NextTimes(_, _, _)
NextTimes(i, len, n) ==
    IF n = 0 THEN i ELSE NextTimes(NextIndex(i, len), len, n - 1)

\* C2: over an active sequence of N >= 1 tracks Next sets the index to
\* (index + 1) mod N and Prev to (index - 1 + N) mod N; from an index i of the
\* sequence, N presses of Next lead back to i, Prev undoes Next, and Prev from
\* 0 leads to N - 1.
C2_NextPrevModular ==
    [][LET N == Len(playingTracks)
           i == currentTrackIndex
       IN  (N >= 1 /\ i # NaN) =>
             /\ last'.op = "next" => currentTrackIndex' = (i + 1) % N
             /\ last'.op = "prev" => currentTrackIndex' = (i - 1 + N) % N
             /\ i \in 0..(N - 1) =>
                  /\ NextTimes(i, N, N) = i
                  /\ PrevIndex(NextIndex(i, N), N) = i
                  /\ PrevIndex(0, N) = N - 1]_vars

\* Next has wrapped from the last row of the three-track library to row 0.
C2_Witness ==
    /\ last.op = "next"
    /\ playbackContext = Library
    /\ Len(playingTracks) = NumDemo
    /\ currentTrackIndex = 0

\* C3: the index Next, Prev and the end of a track compute is always a natural
\* number: the active sequence they divide by is never the empty list.
C3_IndexAlwaysValid ==
    last.op \in {"next", "prev", "ended"} => currentTrackIndex \in Nat

\* C4: the end of a track advances the index to (index + 1) mod L, with L the
\* length of the active sequence at that moment.
C4_EndedUsesCurrentLength ==
    [][(last'.op = "ended" /\ Len(playingTracks) >= 1 /\ currentTrackIndex # NaN)
          => currentTrackIndex' = (currentTrackIndex + 1) % Len(playingTracks)]_vars

\* C5: selecting a ready track B whose source is not the loaded one issues
\* exactly one load of B followed by exactly one play(); a step issues a load
\* only of a source that differs from the loaded one, and the effect issues
\* nothing when the current track's source is already loaded.
C5_LoadOncePlayOnce ==
    [][LET b == CurrentTrackOf(playbackContext', currentTrackIndex', tracks', playlists')
       IN  /\ (last'.op = "select" /\ ~b.up /\ audio.src # b.url) =>
                 /\ last'.cmds = <<Cmd("load", b.url), Cmd("play", b.url)>>
                 /\ audio'.src = b.url
           /\ \A k \in 1..Len(last'.cmds) :
                 last'.cmds[k].op = "load" => last'.cmds[k].arg # audio.src
           /\ (last'.op # "playPause" /\ audio.src = b.url) =>
                 /\ last'.cmds = <<>>
                 /\ audio'.src = audio.src]_vars

\* B was selected while another track was playing: one load, one play().
C5_Witness ==
    /\ last.op = "select"
    /\ last.was
    /\ last.cmds = <<Cmd("load", currentTrack.url), Cmd("play", currentTrack.url)>>
    /\ audio = [src |-> currentTrack.url, paused |-> FALSE]

\* C6: after a play() that was rejected the interface does not claim to be
\* playing.
C6_RejectedPlayReverts == last.rejected => ~isPlaying

\* C7: the adapter issues playVideo only when isPlaying is true and the
\* reported state is neither playing (1) nor buffering (3), and pauseVideo
\* only when isPlaying is false and the reported state is playing.
C7_CommandOnlyOnDisagreement ==
    [][LET issued(c) == \E k \in 1..Len(ytLast'.cmds) : ytLast'.cmds[k] = c
       IN  /\ issued("playVideo") => (ytProps'.isPlaying /\ ytState \notin {1, 3})
           /\ issued("pauseVideo") => (~ytProps'.isPlaying /\ ytState = 1)]_vars

\* isPlaying became true over a ready player that reported paused (2):
\* playVideo was issued.
C7_Witness ==
    /\ ytPlayer = "ready"
    /\ ytProps.isPlaying
    /\ ytState = 2
    /\ ytLast = [op |-> "render", cmds |-> <<"playVideo">>, ended |-> FALSE]

\* C8 as stated: once non-empty lyrics for X are cached, a selection of X
\* displays the cached text, issues no fetch and leaves the entry unchanged.
C8_SelectionShowsCached ==
    [][LET x == CurrentTrackOf(playbackContext', currentTrackIndex', tracks', playlists').id
       IN  (last'.op = "select" /\ x \in TrackIds /\ lyricsCache[x] # NoText) =>
             /\ lyrics' = lyricsCache[x]
             /\ last'.fetch = 0
             /\ lyricsCache'[x] = lyricsCache[x]]_vars

\* C8, amended: once non-empty lyrics for X are cached, a step that makes X the
\* current track issues no fetch and leaves the cache unchanged; it displays
\* the cached text when it loads X, and leaves the display alone when X's
\* source is the one already loaded.
C8_CachedSelection ==
    [][LET t == CurrentTrackOf(playbackContext', currentTrackIndex', tracks', playlists')
       IN  (/\ last'.op \in {"select", "next", "prev", "ended"}
            /\ t.id \in TrackIds
            /\ lyricsCache[t.id] # NoText) =>
             /\ last'.fetch = 0
             /\ lyricsCache' = lyricsCache
             /\ lyricsInFlight' = lyricsInFlight
             /\ lyrics' = IF audio.src # t.url THEN lyricsCache[t.id] ELSE lyrics]_vars

\* A cached track was selected and loaded: its cached text is on display.
C8_Witness ==
    /\ last.op = "select"
    /\ last.cmds # <<>>
    /\ last.fetch = 0
    /\ lyricsCache[currentTrack.id] # NoText
    /\ lyrics = lyricsCache[currentTrack.id]

\* v brought into [lo, hi].
Between(v, lo, hi) == IF v < lo THEN lo ELSE IF v > hi THEN hi ELSE v

\* C9: during a drag every pointer move sets speed to
\* clamp(startSpeed + dx/150, 0, 4) and intensity to
\* clamp(startIntensity - dy/150, 0.1, 3), with dx and dy measured from the
\* position of the pointer-down and the start values those recorded at the
\* pointer-down, which the moves leave alone; from (1, 1) a drag of (150, -150)
\* gives (2, 2) and a drag of (-1000, 1000) gives intensity 0.1 and speed 0.
C9_DragRelativeToStart ==
    [][/\ (dragState.isDragging /\ dragState'.isDragging) =>
             LET dx == pointer'.x - dragState.startPos.x
                 dy == pointer'.y - dragState.startPos.y
             IN  /\ dragState' = dragState
                 /\ visualSettings'.speed =
                       Between(dragState.startSpeed + Fixed(dx, 150), 0, Fixed(4, 1))
                 /\ visualSettings'.intensity =
                       Between(dragState.startIntensity - Fixed(dy, 150),
                               Fixed(1, 10), Fixed(3, 1))
       /\ (~dragState.isDragging /\ dragState'.isDragging) =>
             dragState' = [isDragging |-> TRUE, startPos |-> pointer',
                           startIntensity |-> visualSettings.intensity,
                           startSpeed |-> visualSettings.speed]
       /\ LET from11 == [isDragging |-> TRUE, startPos |-> [x |-> 0, y |-> 0],
                         startIntensity |-> Fixed(1, 1), startSpeed |-> Fixed(1, 1)]
          IN  /\ NewSpeed(from11, 150) = Fixed(2, 1)
              /\ NewIntensity(from11, 0 - 150) = Fixed(2, 1)
              /\ NewSpeed(from11, 0 - 1000) = 0
              /\ NewIntensity(from11, 1000) = Fixed(1, 10)]_vars

\* A drag from (1, 1) has moved by (150, -150): the settings are (2, 2).
C9_Witness ==
    /\ dragState.isDragging
    /\ dragState.startSpeed = Fixed(1, 1)
    /\ dragState.startIntensity = Fixed(1, 1)
    /\ pointer.x - dragState.startPos.x = 150
    /\ pointer.y - dragState.startPos.y = 0 - 150
    /\ visualSettings = [intensity |-> Fixed(2, 1), speed |-> Fixed(2, 1)]

\* C10: intensity is within [0.1, 3] and speed within [0, 4] in every
\* reachable state, in the settings and in every preset of the list.
C10_SettingsInRange ==
    /\ visualSettings.intensity \in Fixed(1, 10)..Fixed(3, 1)
    /\ visualSettings.speed \in 0..Fixed(4, 1)
    /\ \A k \in 1..Len(presets) :
          /\ presets[k].intensity \in Fixed(1, 10)..Fixed(3, 1)
          /\ presets[k].speed \in 0..Fixed(4, 1)

\* The user has saved the upper limits as a preset and a drag has then driven
\* the settings to the lower limits.
C10_Witness ==
    /\ Len(presets) = Len(InitialPresets) + 1
    /\ presets[Len(presets)].intensity = Fixed(3, 1)
    /\ presets[Len(presets)].speed = Fixed(4, 1)
    /\ dragState.isDragging
    /\ visualSettings = [intensity |-> Fixed(1, 10), speed |-> 0]

\* The four fields of VisualizerParameters.
Params == <<visualizerMode, visualColor, visualSettings>>

\* A step of the control surface: the drag, a slider (of the scene or of the
\* settings popup), the mode switch or a pick from the palette. The inputs of
\* the step are read from the state it leads to.
SurfaceStep ==
    \/ onPointerDown(pointer'.x, pointer'.y)
    \/ onPointerMove(pointer'.x, pointer'.y)
    \/ onPointerUp
    \/ \E key \in Sliders : \E y \in PointYs :
          sliderPointerDown(key, y) \/ sliderPointerMove(key, y)
    \/ \E key \in Sliders : sliderPointerUp(key)
    \/ \E key \in Sliders : rangeInput(key, visualSettings'[key])
    \/ switchVisualizer
    \/ onChangeColor(visualColor')

\* A preset of the list is loaded.
PresetStep == \E k \in 1..Len(presets) : loadPreset(presets[k])

\* A vibe analysis completes, and changes nothing of the parameters but the colour.
VibeStep ==
    /\ \E id \in TrackIds : vibeResolved(id, visualColor')
    /\ UNCHANGED <<visualizerMode, visualSettings>>

\* C11 as stated: a step that changes mode, color, intensity or speed is a
\* control-surface action or the loading of a preset; every other action,
\* the completion of an AI call included, leaves the four fields unchanged.
C11_OnlySurfaceOrPreset ==
    [][Params' # Params => SurfaceStep \/ PresetStep]_vars

\* C11, amended: a step that changes mode, color, intensity or speed is a
\* control-surface action, the loading of a preset, or the completion of a
\* vibe analysis, which changes the color alone; every other action (a frame's
\* sampling, the track change itself) leaves the four fields unchanged.
C11_OnlySurfacePresetOrVibe ==
    [][Params' # Params => SurfaceStep \/ PresetStep \/ VibeStep]_vars

\* A vibe analysis has completed and set its colour, after the control
\* surface changed the mode and the settings and while the frames sample.
C11_Witness ==
    /\ last.op = "vibeResolved"
    /\ visualColor \in VibeColors
    /\ visualizerMode # "orb"
    /\ visualSettings.intensity # Fixed(1, 1)
    /\ average # 0

\* C12: neither the drag gesture nor a slider is left dragging or holding the
\* pointer capture by a pointerUp or a pointer-out event, and a pointerMove
\* that arrives while the instance is not dragging changes no parameter.
C12_CaptureReleased ==
    [][ /\ onPointerUp => ~dragState'.isDragging /\ capture' # "visualizer"
        /\ \A key \in Sliders :
              (sliderPointerUp(key) \/ sliderPointerOut(key))
                  => ~sliderActive'[key] /\ capture' # key
        /\ (~dragState.isDragging /\ onPointerMove(pointer'.x, pointer'.y))
              => UNCHANGED Params
        /\ \A key \in Sliders : \A y \in PointYs :
              (~sliderActive[key] /\ sliderPointerMove(key, y)) => UNCHANGED Params
      ]_vars

\* C13: the estimator returns null for empty lyrics, for lyrics without a
\* non-blank line and for duration 0; otherwise, with N non-blank lines, it
\* returns for 0 <= t < d the line of index floor(t / (d / N)), an index of
\* 0..N-1, and for t >= d the last line.
C13_EstimatorInBounds ==
    LET lines == Lines(playerControls.lyrics)
        N == Len(lines)
        t == playerControls.currentTime
        d == playerControls.duration
    IN  /\ (playerControls.lyrics = <<>> \/ N = 0 \/ d = 0)
              => playerControls.currentLyric = Null
        /\ (N > 0 /\ d > 0 /\ t < d)
              => \E index \in 0..(N - 1) :
                    /\ index * d <= t * N
                    /\ t * N < (index + 1) * d
                    /\ playerControls.currentLyric = lines[index + 1]
        /\ (N > 0 /\ d > 0 /\ t >= d) => playerControls.currentLyric = lines[N]

\* Three lines, of which the second is returned in the middle of the track;
\* or two different lines and a time past the end.
C13_Witness ==
    LET lines == Lines(playerControls.lyrics)
    IN  \/ /\ Len(lines) = 3
           /\ playerControls.duration = 3
           /\ playerControls.currentTime = 1
           /\ playerControls.currentLyric = lines[2]
        \/ /\ Len(lines) = 2
           /\ lines[1] # lines[2]
           /\ playerControls.duration = 4
           /\ playerControls.currentTime = 5
           /\ playerControls.currentLyric = lines[2]

\* C14: each of the three AI calls resolves and never rejects, with a value
\* its caller can use, whatever the backend did; after a quota error the value
\* is the quota fallback of the call's type, after any other error its
\* generic fallback.
C14_AlwaysResolves ==
    aiLast.kind # "none" =>
        LET value == aiLast.result.value
            failed == ~aiLast.outcome.ok
            quota == failed /\ isQuotaError(aiLast.outcome.error)
        IN  /\ ~aiLast.result.rejected
            /\ aiLast.kind = "chat" =>
                  /\ value # ""
                  /\ quota => value = "I'm currently recharging my neural networks (Quota Exceeded). Catch you later!"
                  /\ (failed /\ ~quota) => value = "Connection to the grid lost."
            /\ aiLast.kind = "vibe" =>
                  /\ value.color # "" /\ value.description # ""
                  /\ quota => /\ \E k \in 1..Len(FallbackColors) : value.color = FallbackColors[k]
                              /\ value.description = "Vibe analysis offline (Quota Limit)."
                  /\ (failed /\ ~quota) =>
                        value = [color |-> "#6366f1",
                                 description |-> "Unknown frequency detected."]
            /\ aiLast.kind = "lyrics" =>
                  /\ quota => value = "Lyrics unavailable: API Quota Limit Exceeded.\n\nPlease try again later or manually add lyrics."
                  /\ (failed /\ ~quota) => value = ""

\* A lyrics fetch has failed with an error that is no quota error, and
\* resolved with the empty text.
C14_Witness ==
    /\ aiLast.kind = "lyrics"
    /\ ~aiLast.outcome.ok
    /\ ~isQuotaError(aiLast.outcome.error)
    /\ aiLast.result = Resolved("")

\* C15: a search for the empty query resolves with the empty list and issues
\* no lookup; a search for a non-empty query whose lookup fails (the fetch
\* rejects, or the response is not OK) resolves, and does not reject, with
\* the canned list, which is not empty.
C15_SearchFallback ==
    /\ searchLast.query.words = <<>> =>
          /\ searchLast.lookups = <<>>
          /\ searchLast.result = Resolved(<<>>)
    /\ \A k \in 1..Len(searchLast.lookups) :
          searchLast.lookups[k].kind \in {"network", "status"} =>
              /\ searchLast.query.words # <<>>
              /\ ~searchLast.result.rejected
              /\ searchLast.result.value = MOCK_RESULTS
              /\ Len(searchLast.result.value) > 0

\* A search for "nothing" whose lookup got a response that is not OK has
\* resolved with the five canned tracks.
C15_Witness ==
    /\ searchLast.query.words = <<"nothing">>
    /\ searchLast.lookups = <<Lookup("status", <<>>)>>
    /\ ~searchLast.result.rejected
    /\ Len(searchLast.result.value) = 5

\* C16: a call of save, listAll or remove that met a storage failure, the
\* failure to open the database included, and that has no step left to take,
\* has rejected the promise it returned: the promise is neither pending nor
\* resolved.
C16_FailureRejects ==
    \A k \in 1..Len(dbOps) :
        (dbOps[k].failed /\ dbOps[k].stage \notin {"opening", "request"})
            => dbOps[k].promise = "rejected"

\* No playlist holds two tracks of the same id.
NoDuplicates ==
    \A j \in 1..Len(playlists) :
        \A a, b \in 1..Len(playlists[j].tracks) :
            a # b => playlists[j].tracks[a].id # playlists[j].tracks[b].id

C18_ReplacedInPlace ==
    [][ /\ handleFileUpload =>
              /\ Len(tracks') = Len(tracks) + 1
              /\ tracks'[Len(tracks')].up
              /\ \A j \in 1..Len(tracks) : tracks'[j] = tracks[j]
        /\ \A u \in uploads : uploadReady(u, TRUE) =>
              \E at \in 1..Len(tracks) :
                  /\ tracks[at].up /\ tracks[at].id = TempId(u.k)
                  /\ Len(tracks') = Len(tracks)
                  /\ ~tracks'[at].up /\ tracks'[at].url # NoSrc
                  /\ \A j \in 1..Len(tracks) : j # at => tracks'[j] = tracks[j]
      ]_vars

\* The first of two uploads has been replaced at row 4, while the placeholder
\* of the second is still at row 5.
C18_Witness ==
    /\ last.op = "uploadReady"
    /\ Len(tracks) = NumDemo + 2
    /\ ~tracks[NumDemo + 1].up
    /\ tracks[NumDemo + 1].id = FinalTrack(1).id
    /\ tracks[NumDemo + 2].up

\* The mode that n switches lead to from mode.
RECURSIVE SwitchTimes(_, _)
SwitchTimes(mode, n) == IF n = 0 THEN mode ELSE SwitchTimes(NextMode(mode), n - 1)

\* C19: a switch moves the mode from orb to bars, from bars to wave and from
\* wave to orb; three switches in a row lead back to the mode they started
\* from, and the mode is always one of the three.
C19_ModeCycle ==
    /\ [](visualizerMode \in {"orb", "bars", "wave"})
    /\ [](SwitchTimes(visualizerMode, 3) = visualizerMode)
    /\ [][switchVisualizer =>
            /\ visualizerMode = "orb" => visualizerMode' = "bars"
            /\ visualizerMode = "bars" => visualizerMode' = "wave"
            /\ visualizerMode = "wave" => visualizerMode' = "orb"]_vars

\* The mode was orb again, with the settings and the colour of the second
\* preset, whose mode is bars: the switch has gone from bars to wave and from
\* wave back to orb.
C19_Witness ==
    /\ visualizerMode = "orb"
    /\ visualColor = presets[2].color
    /\ visualSettings = [intensity |-> presets[2].intensity, speed |-> presets[2].speed]

\* C20: a save under a name that is not blank appends one preset, which holds
\* the current mode, color, intensity and speed, and a save under a blank name
\* changes nothing; a delete removes the presets of the given id and no other;
\* and every preset of the list after a step is a preset of the list before
\* it, unchanged and in the same order, or the one a save has appended.
C20_AppendRemoveOnly ==
    [][ /\ savePreset =>
              IF Trim(newPresetName) = "" THEN presets' = presets
              ELSE /\ Len(presets') = Len(presets) + 1
                   /\ SubSeq(presets', 1, Len(presets)) = presets
                   /\ LET new == presets'[Len(presets')]
                      IN  /\ new.name = newPresetName
                          /\ new.mode = visualizerMode
                          /\ new.color = visualColor
                          /\ new.intensity = visualSettings.intensity
                          /\ new.speed = visualSettings.speed
                          /\ \A k \in 1..Len(presets) : presets[k].id # new.id
        /\ \A k \in 1..Len(presets) :
              deletePreset(presets[k].id) =>
                  /\ Len(presets') = Len(presets) - 1
                  /\ \A j \in 1..Len(presets') :
                        presets'[j] = presets[IF j < k THEN j ELSE j + 1]
        /\ \/ presets' = presets
           \/ savePreset /\ SubSeq(presets', 1, Len(presets)) = presets
           \/ \E k \in 1..Len(presets) :
                 presets' = SubSeq(presets, 1, k - 1) \o SubSeq(presets, k + 1, Len(presets))
      ]_vars

\* The list holds a preset the user saved from the third preset with the
\* intensity changed, and the first preset has been deleted; the second
\* preset, loaded since, is as it was.
C20_Witness ==
    /\ Len(presets) = 3
    /\ presets[1] = InitialPresets[2]
    /\ presets[2] = InitialPresets[3]
    /\ presets[3].name = "mine"
    /\ presets[3].mode = "wave"
    /\ presets[3].color = InitialPresets[3].color
    /\ presets[3].intensity # InitialPresets[3].intensity
    /\ visualizerMode = "bars"

\* The senders of the transcript, in display order.
Senders == [k \in 1..Len(chatMessages) |-> chatMessages[k].sender]

\* C21: the chat transcript is append-only and ordered by insertion: a step
\* leaves it alone or appends one message to it; a send appends the user's
\* message (the text of the input) and its request is awaited; a response
\* that arrives appends one AI message; whatever number of requests are in
\* flight.
C21_TranscriptAppendOnly ==
    [][ /\ \/ chatMessages' = chatMessages
           \/ /\ Len(chatMessages') = Len(chatMessages) + 1
              /\ SubSeq(chatMessages', 1, Len(chatMessages)) = chatMessages
        /\ chatSent' # chatSent =>
              /\ chatMessages' = Append(chatMessages, ChatMessage("user", chatInput))
              /\ \E request \in chatInFlight' \ chatInFlight : request.text = chatInput
        /\ chatInFlight' \subseteq chatInFlight /\ chatInFlight' # chatInFlight =>
              /\ Len(chatMessages') = Len(chatMessages) + 1
              /\ chatMessages'[Len(chatMessages')].sender = "ai"
        /\ (chatSent' = chatSent /\ chatInFlight' = chatInFlight) =>
              chatMessages' = chatMessages ]_vars

\* Two messages were sent before the first response arrived, and both
\* responses have been appended after them.
C21_Witness ==
    /\ Senders = <<"ai", "user", "user", "ai", "ai">>
    /\ chatMessages[2].text = "hi" /\ chatMessages[3].text = "play"
    /\ chatInFlight = {}

\* C22: while the wave is mounted its accumulated time is never reset or
\* recomputed: a frame adds delta * speed to it, no step makes it smaller, and
\* a step that changes the speed leaves its value as it is.
C22_WaveTimeAccumulates ==
    [][ (visualizerMode = "wave" /\ visualizerMode' = "wave") =>
          /\ timeRef' >= timeRef
          /\ visualSettings'.speed # visualSettings.speed => timeRef' = timeRef
          /\ \A delta \in Deltas :
                waveUseFrame(0, delta) =>
                    timeRef' = timeRef + delta * visualSettings.speed
          /\ timeRef' # timeRef => \E delta \in Deltas : waveUseFrame(0, delta) ]_vars

\* The wave has run at one speed, the speed was changed, and it has run on at
\* the other speed: the time is the sum of the two stretches.
C22_Witness ==
    /\ visualizerMode = "wave"
    /\ visualSettings.speed = SliderMax("speed")
    /\ timeRef = Fixed(1, 60) * Fixed(1, 1) + Fixed(1, 30) * SliderMax("speed")

\* C23: the lyrics editor keeps a draft apart from the committed lyrics. Save
\* commits the draft and closes the editor; Cancel leaves the committed lyrics
\* alone and closes the editor; whenever the editor is closed the draft is
\* the committed text, so that the next edit starts from it and not from a
\* discarded draft; and while the editor stays open a change of the committed
\* lyrics leaves the draft as it is.
C23_DraftAndCommitted ==
    /\ [](rightPanelMode = "lyrics" /\ ~isEditing => editedLyrics = lyrics)
    /\ [][ /\ handleSave => lyrics' = editedLyrics /\ ~isEditing'
           /\ (toggleEditing /\ isEditing) => lyrics' = lyrics /\ ~isEditing'
           /\ (toggleEditing /\ ~isEditing) => isEditing' /\ editedLyrics' = lyrics
           /\ (isEditing /\ isEditing' /\ lyrics' # lyrics) =>
                 editedLyrics' = editedLyrics ]_vars

\* The editor is open on a draft the user typed while the committed lyrics
\* have changed under it.
C23_Witness ==
    /\ rightPanelMode = "lyrics" /\ isEditing /\ ~isLyricsLoading
    /\ editedLyrics = EditedText
    /\ last.op = "lyricsResolved" /\ lyrics = LyricsOf(last.arg)

\* C24: while every play() succeeds, isPlaying agrees with the audio
\* element: the element plays whenever isPlaying is true and is paused
\* whenever isPlaying is false.
C24_FlagAgreesWithTransport == isPlaying <=> ~audio.paused

\* C25: currentTrackIndex is an index of the active playback sequence, and
\* the track presented as current is the element of that sequence at it.
C25_IndexInActiveSequence ==
    /\ Defined(playingTracks, currentTrackIndex)
    /\ currentTrack = playingTracks[currentTrackIndex + 1]

\* C26: the lyrics loading flag is true exactly while a lyrics fetch for the
\* current track is in flight.
C26_LoadingIffFetchInFlight ==
    isLyricsLoading <=> lyricsInFlight[currentTrack.id] > 0

\* C27: the AI typing indicator is true exactly while at least one chat
\* request is outstanding.
C27_TypingIffOutstanding == isAiTyping <=> chatInFlight # {}

\* C28: only the lyrics of a successful fetch are stored in the lyrics
\* cache: a request that settles after a failure of the backend, a quota
\* error or any other, leaves the cache as it is.
C28_FailureNotCached ==
    [][ \A id \in TrackIds : \A outcome \in LyricsOutcomes :
          (lyricsSettled(id, outcome) /\ ~outcome.ok) => lyricsCache' = lyricsCache ]_vars

\* C29: once the embedded player is ready, the video it has loaded and its
\* volume are those of the adapter's latest props.
C29_ReadyPlayerCurrent ==
    ytPlayer = "ready" =>
        /\ ytVideo = ytProps.videoId
        /\ ytVolume = Percent(ytProps.volume)

\* C30: the playback context is the library or the id of a playlist that
\* exists: the deletion of the playlist that is the playback context resets
\* the context to the library, the index to 0 and isPlaying to false in the
\* same step, and the deletion of a playlist that is not the playback context
\* leaves the three as they are.
C30_ContextExists ==
    /\ [](playbackContext = Library \/ HasPlaylist(playlists, playbackContext))
    /\ [][ \A id \in 1..MaxPlaylists :
             deletePlaylist(id) =>
                 IF playbackContext = id
                 THEN /\ playbackContext' = Library
                      /\ currentTrackIndex' = 0
                      /\ isPlaying' = FALSE
                 ELSE UNCHANGED <<playbackContext, currentTrackIndex, isPlaying>> ]_vars

\* The playlist that was playing has been deleted.
C30_Witness ==
    /\ last.op = "deletePlaylist"
    /\ last.was /\ ~isPlaying
    /\ playbackContext = Library /\ currentTrackIndex = 0
    /\ playlists = <<>>

====
